---- MODULE Spec2Model ----
(***************************************************************************)
(* Model of the table operations of form-recognition-fill:                 *)
(*   - the model invocation gateway invokeLLM (server/_core/llm.ts),       *)
(*   - the response extraction parseJsonResponse,                          *)
(*   - the three tRPC mutations recognizeFromImage, searchAndFill and      *)
(*     modifyTable with their reconciliation of the candidate table.       *)
(* Strings of the source that are not ASCII are written in ASCII here; the *)
(* definition that stands for each names the source line in its comment.   *)
(***************************************************************************)
EXTENDS Integers, Sequences, FiniteSets, TLC

(***************************************************************************)
(* Bounds of the model.                                                    *)
(***************************************************************************)
\* Largest number of rows of an input table and of a candidate table.
MaxRows == 2
\* Largest number of headers of a table and largest length of a row.
MaxCols == 3

(***************************************************************************)
(* JavaScript values.                                                      *)
(***************************************************************************)
\* The value of reading an array index that does not exist.
Undefined == "undefined"

\* JavaScript truthiness of a string or undefined: "" and undefined are falsy.
Truthy(v) == v # "" /\ v # Undefined

\* The JavaScript expression a || b.
Or(a, b) == IF Truthy(a) THEN a ELSE b

\* row[c] with a 0-based index c, undefined outside the array.
At(row, c) == IF c >= 0 /\ c < Len(row) THEN row[c + 1] ELSE Undefined

\* array.slice(0, n)
Slice(row, n) == SubSeq(row, 1, n)

\* rows[idx] || [] , with idx counted from 1
RowOrEmpty(rows, idx) == IF idx >= 1 /\ idx <= Len(rows) THEN rows[idx] ELSE <<>>

(***************************************************************************)
(* Tables.  A TableData is [headers, rows]; a table as it comes out of     *)
(* JSON.parse may lack either property, or be missing altogether, which    *)
(* the flags record (the sequence of an absent property is <<>>).          *)
(***************************************************************************)
Table(h, r) ==
    [defined |-> TRUE, hasHeaders |-> TRUE, hasRows |-> TRUE, headers |-> h, rows |-> r]

NoTable ==
    [defined |-> FALSE, hasHeaders |-> FALSE, hasRows |-> FALSE, headers |-> <<>>, rows |-> <<>>]

(***************************************************************************)
(* The tables the model runs the operations on.  Every cell that holds     *)
(* text holds a text of its own, named after its row and column, so that a *)
(* cell of the result shows where it came from.                            *)
(***************************************************************************)
\* Text of the original cell of row i, column c (both counted from 1), the
\* text a model answers with for that cell, and the key of row i.
OriginalText(i, c) == "o" \o ToString(i) \o ToString(c)
NewText(i, c) == "n" \o ToString(i) \o ToString(c)
KeyText(i) == "k" \o ToString(i)

\* Which cells after the first are blank in a row of len cells.
BlankPatterns == {"none", "all", "middle", "last"}
IsBlank(blanks, c, len) ==
    \/ blanks = "all"
    \/ blanks = "middle" /\ c < len
    \/ blanks = "last" /\ c = len

\* The first column of an input table: a key per row, one key for all rows,
\* or no key at all.
OriginalKeyPatterns == {"distinct", "same", "blank"}
OriginalKey(keys, i) ==
    IF keys = "distinct" THEN KeyText(i) ELSE IF keys = "same" THEN KeyText(1) ELSE ""

\* The headers of an input table with n columns, and other headers a model
\* may answer with.
OriginalHeaders(n) == [c \in 1..n |-> "h" \o ToString(c)]
OtherHeaders(n) == [c \in 1..n |-> "g" \o ToString(c)]

\* The number of cells of row i: len in every row ("even"), one more with
\* every row ("rising") or one fewer with every row ("falling").
RowLen(shape, len, i) ==
    IF shape = "even" THEN len
    ELSE IF shape = "rising"
         THEN (IF len + i - 1 <= MaxCols THEN len + i - 1 ELSE MaxCols)
         ELSE (IF len - (i - 1) >= 0 THEN len - (i - 1) ELSE 0)

\* Input tables the zod schema tableDataSchema accepts: n rows under any
\* number of headers (the schema does not ask that a row have as many cells
\* as there are headers, nor that the rows have the same length).
OriginalShapes == {"even", "falling"}

InputTable(h, n, len, shape, keys, blanks) ==
    Table(OriginalHeaders(h),
          [i \in 1..n |->
              [c \in 1..RowLen(shape, len, i) |->
                  IF c = 1 THEN OriginalKey(keys, i)
                  ELSE IF IsBlank(blanks, c, RowLen(shape, len, i)) THEN ""
                  ELSE OriginalText(i, c)]])

InputTables ==
    {InputTable(h, n, len, shape, keys, blanks) :
        h \in 0..MaxCols, n \in 0..MaxRows, len \in 0..MaxCols,
        shape \in OriginalShapes, keys \in OriginalKeyPatterns, blanks \in BlankPatterns}

\* Candidate tables: what JSON.parse may yield for tableData when it is an
\* object holding arrays of arrays of strings, for a model that was shown the
\* table t.  The candidate has any number of rows, of any of the three
\* shapes; its keys repeat the
\* input's in order, in reverse order, are one key or are blank; its other
\* cells are new text, blank, a copy of the input's cell ("echo"), or a copy
\* but for a new last cell ("newLast").
CandidateShapes == {"even", "rising", "falling"}
CandidateKeyPatterns == {"inOrder", "reversed", "same", "blank"}
CandidateCellPatterns == {"new", "blank", "echo", "newLast"}

CandidateKey(keys, i, n) ==
    IF keys = "inOrder" THEN KeyText(i)
    ELSE IF keys = "reversed" THEN KeyText(n + 1 - i)
    ELSE IF keys = "same" THEN KeyText(1)
    ELSE ""

CandidateCell(t, cells, i, c, len) ==
    LET old == At(RowOrEmpty(t.rows, i), c - 1)
    IN  IF cells = "blank" THEN ""
        ELSE IF cells = "new" \/ old = Undefined THEN NewText(i, c)
        ELSE IF cells = "newLast" /\ c = len THEN NewText(i, c)
        ELSE old

CandidateRows(t, n, len, shape, keys, cells) ==
    [i \in 1..n |->
        [c \in 1..RowLen(shape, len, i) |->
            IF c = 1 THEN CandidateKey(keys, i, n)
            ELSE CandidateCell(t, cells, i, c, RowLen(shape, len, i))]]

CandidateHeaders(t) ==
    {t.headers} \cup {OtherHeaders(k) : k \in 0..MaxCols}

CandidateTables(t) ==
    {Table(h, CandidateRows(t, n, len, shape, keys, cells)) :
        h \in CandidateHeaders(t), n \in 0..MaxRows, len \in 0..MaxCols,
        shape \in CandidateShapes, keys \in CandidateKeyPatterns,
        cells \in CandidateCellPatterns}

\* A tableData object without its rows, and one without its headers.
TableWithoutRows(h) ==
    [defined |-> TRUE, hasHeaders |-> TRUE, hasRows |-> FALSE, headers |-> h, rows |-> <<>>]
TableWithoutHeaders(r) ==
    [defined |-> TRUE, hasHeaders |-> FALSE, hasRows |-> TRUE, headers |-> <<>>, rows |-> r]

(***************************************************************************)
(* Completions.  What the backend answers, by what the operations do with  *)
(* it: kind is                                                             *)
(*   "noChoice"  no candidate in the response (choices is empty),          *)
(*   "emptyText" a candidate whose text is the empty string,               *)
(*   "notJson"   text that JSON.parse rejects,                             *)
(*   "jsonNull"  the JSON text null,                                       *)
(*   "json"      a JSON object; table is its tableData property.           *)
(***************************************************************************)
Completion(k, t, title, msg) == [kind |-> k, table |-> t, title |-> title, message |-> msg]

MalformedCompletions ==
    {Completion(k, NoTable, Undefined, Undefined) : k \in {"noChoice", "emptyText", "notJson", "jsonNull"}}

PartialCompletions ==
    {Completion("json", NoTable, "t", "m"),
     Completion("json", TableWithoutRows(OtherHeaders(1)), "t", "m"),
     Completion("json", TableWithoutHeaders(<< <<KeyText(1), NewText(1, 2)>> >>), "t", "m")}

TableCompletions(t) ==
    {Completion("json", cand, "t", "m") : cand \in CandidateTables(t)}

\* The completions a backend may answer with when it was shown the table t.
Completions(t) == MalformedCompletions \cup PartialCompletions \cup TableCompletions(t)

(***************************************************************************)
(* Response extraction.  parseJsonResponse throws exactly when JSON.parse  *)
(* rejects the extracted text; otherwise it yields the parsed value.       *)
(***************************************************************************)
parseJsonResponseThrows(completion) == completion.kind = "notJson"

\* responseContent is undefined or "" : the check of lines 592, 683, 815.
NoResponseContent(completion) == completion.kind \in {"noChoice", "emptyText"}

(***************************************************************************)
(* Response extraction, on the text.  A text is a sequence of tokens: the  *)
(* fence of three backticks, the tag json, white space, a word of prose,   *)
(* the JSON texts [1] and [2], and the two ends of a JSON text that holds  *)
(* one string, [" and "], between which any token but a JSON token may     *)
(* stand (a string may hold backticks).                                    *)
(***************************************************************************)
MaxText == 2

\* Three backticks, written in letters.
Fence == "<fence>"
Tag == "json"
Space == " "
Prose == "text"
StringOpen == "[\""
StringClose == "\"]"

StringTokens == {Fence, Tag, Space, Prose}

\* The texts a JSON string of at most MaxText tokens may hold.
StringContents == UNION {[1..n -> StringTokens] : n \in 0..MaxText}

\* The JSON texts: [1], [2] and ["..."] for every content.
JsonTexts ==
    {<<"[1]">>, <<"[2]">>} \cup {<<StringOpen>> \o body \o <<StringClose>> : body \in StringContents}

\* String.prototype.trim
Trim(text) ==
    LET inked == {i \in 1..Len(text) : text[i] # Space}
    IN  IF inked = {} THEN <<>>
        ELSE SubSeq(text, CHOOSE i \in inked : \A k \in inked : i <= k,
                          CHOOSE i \in inked : \A k \in inked : i >= k)

\* JSON.parse: it skips the white space around the value; the value of a
\* text is written as the text without that white space; any other text is
\* a SyntaxError.
JSONparse(text) ==
    LET t == Trim(text)
    IN  IF t \in JsonTexts THEN [ok |-> TRUE, value |-> t] ELSE [ok |-> FALSE, value |-> <<>>]

\* The index of the first fence of content at or after from, or 0.
FirstFence(content, from) ==
    LET hits == {i \in from..Len(content) : content[i] = Fence}
    IN  IF hits = {} THEN 0 ELSE CHOOSE i \in hits : \A k \in hits : i <= k

\* Mutant: the capture group is greedy, it runs to the last fence.
parseJsonResponse_LastFence(content) ==
    LET open == FirstFence(content, 1)
        afterTag == IF open # 0 /\ open < Len(content) /\ content[open + 1] = Tag
                    THEN open + 2 ELSE open + 1
        later == {i \in afterTag..Len(content) : content[i] = Fence}
        close == IF open = 0 \/ later = {} THEN 0
                 ELSE CHOOSE i \in later : \A k \in later : i >= k
    IN  JSONparse(IF close # 0 THEN Trim(SubSeq(content, afterTag, close - 1))
                  ELSE Trim(content))

\* content.match(/<fence>(?:json)?\s*([\s\S]*?)<fence>/): the first fence,
\* the tag when it follows at once, and lazily up to the next fence; without
\* a second fence there is no match and the whole text is parsed.
parseJsonResponse(content) ==
    LET open == FirstFence(content, 1)
        afterTag == IF open # 0 /\ open < Len(content) /\ content[open + 1] = Tag
                    THEN open + 2 ELSE open + 1
        close == IF open = 0 THEN 0 ELSE FirstFence(content, afterTag)
    IN  JSONparse(IF close # 0 THEN Trim(SubSeq(content, afterTag, close - 1))
                  ELSE Trim(content))

\* What a model puts around the JSON text of its answer: prose before the
\* block, the tag or not, white space inside the fences, and after the
\* block prose or a second block.
Wrappings ==
    [before : {<<>>, <<Prose>>, <<Prose, Space>>},
     tag : {<<>>, <<Tag>>},
     lead : {<<>>, <<Space>>},
     trail : {<<>>, <<Space>>},
     after : {<<>>, <<Space, Prose>>, <<Space, Fence, "[2]", Fence>>,
              <<Prose, Fence, Tag, Space, "[2]", Space, Fence, Prose>>}]

Wrapped(j, w) ==
    w.before \o <<Fence>> \o w.tag \o w.lead \o j \o w.trail \o <<Fence>> \o w.after

(***************************************************************************)
(* Results of an operation: a returned value or an error raised to the     *)
(* caller of the mutation.                                                 *)
(***************************************************************************)
Returned(title, t, msg) ==
    [outcome |-> "returned", title |-> title, tableData |-> t, message |-> msg, error |-> ""]

Raised(err) ==
    [outcome |-> "raised", title |-> Undefined, tableData |-> NoTable, message |-> Undefined,
     error |-> err]

NoResult ==
    [outcome |-> "none", title |-> Undefined, tableData |-> NoTable, message |-> Undefined,
     error |-> ""]

\* Error messages of the source.
ErrApiKey == "GEMINI_API_KEY is not configured"
ErrNetwork == "fetch failed"
ErrInvoke == "LLM invoke failed"
ErrNoResponse == "Failed to get response from LLM"

(***************************************************************************)
(* recognizeFromImage, after invokeLLM has resolved.                       *)
(***************************************************************************)
\* The title and table of the catch block (source: the Chinese literals of
\* lines 609, 611 and 612, here in ASCII).
FallbackTitle == "recognized table"
FallbackTable == Table(<<"col1", "col2", "col3">>, << <<"unrecognized", "", "">> >>)

recognizeFromImage(completion) ==
    IF NoResponseContent(completion)
    THEN Raised(ErrNoResponse)
    ELSE IF parseJsonResponseThrows(completion) \/ completion.kind = "jsonNull"
         THEN Returned(FallbackTitle, FallbackTable, Undefined)
         ELSE Returned(completion.title, completion.table, Undefined)

(***************************************************************************)
(* Column normalization: pad a short row from the original row at the same *)
(* index, truncate a long one.                                             *)
(***************************************************************************)
\* Mutant: the missing cells are filled with the empty string only.
PadRow_Blank(row, originalRow, n) ==
    IF Len(row) < n
    THEN [i \in 1..n |-> IF i <= Len(row) THEN row[i] ELSE ""]
    ELSE IF Len(row) > n THEN Slice(row, n) ELSE row

PadRow(row, originalRow, n) ==
    IF Len(row) < n
    THEN [i \in 1..n |-> IF i <= Len(row) THEN row[i] ELSE Or(At(originalRow, i - 1), "")]
    ELSE IF Len(row) > n THEN Slice(row, n) ELSE row

(***************************************************************************)
(* searchAndFill: enforcement of the original structure.                   *)
(***************************************************************************)
\* parsed.tableData.rows.find((newRow) => newRow[0] === originalRow[0])
FindMatch(parsedRows, originalRow) ==
    LET hits == {j \in 1..Len(parsedRows) : At(parsedRows[j], 0) = At(originalRow, 0)}
    IN  IF hits = {} THEN 0 ELSE CHOOSE j \in hits : \A k \in hits : j <= k

\* result[result.length - 1] = v : on an empty array this sets the property
\* "-1" and leaves the elements alone.
SetLast(result, v) ==
    IF Len(result) = 0 THEN result ELSE [result EXCEPT ![Len(result)] = v]

\* Mutant: the row-count mismatch path forgotten, the candidate's rows kept.
MatchByFirstColumn_CandidateRows(tableData, parsedRows) == parsedRows

\* Mutant: the candidate's row is taken by its position, not by its key.
MatchByFirstColumn_ByPosition(tableData, parsedRows) ==
    [i \in 1..Len(tableData.rows) |->
        LET originalRow == tableData.rows[i]
        IN  IF i <= Len(parsedRows) /\ Len(parsedRows[i]) >= Len(tableData.headers)
            THEN SetLast(originalRow, At(parsedRows[i], Len(parsedRows[i]) - 1))
            ELSE originalRow]

\* Mutant: the last cell of the matched row is taken whatever its width.
MatchByFirstColumn_IgnoreWidth(tableData, parsedRows) ==
    [i \in 1..Len(tableData.rows) |->
        LET originalRow == tableData.rows[i]
            j == FindMatch(parsedRows, originalRow)
        IN  IF j # 0
            THEN SetLast(originalRow, At(parsedRows[j], Len(parsedRows[j]) - 1))
            ELSE originalRow]

\* The row-count mismatch path.
MatchByFirstColumn(tableData, parsedRows) ==
    [i \in 1..Len(tableData.rows) |->
        LET originalRow == tableData.rows[i]
            j == FindMatch(parsedRows, originalRow)
        IN  IF j # 0
            THEN IF Len(parsedRows[j]) >= Len(tableData.headers)
                 THEN SetLast(originalRow, At(parsedRows[j], Len(parsedRows[j]) - 1))
                 ELSE originalRow
            ELSE originalRow]

\* Mutant: the aligned path trusts the candidate's first column.
AlignedCell_CandidateKey(originalRow, newRow, col, ncols) ==
    IF col < ncols - 1 /\ col # 0 THEN Or(At(originalRow, col), Or(At(newRow, col), ""))
    ELSE Or(At(newRow, col), Or(At(originalRow, col), ""))

\* Mutant: the aligned path prefers the candidate's cell in every column
\* after the first.
AlignedCell_PreferCandidate(originalRow, newRow, col, ncols) ==
    IF col = 0 THEN Or(At(originalRow, col), "")
    ELSE Or(At(newRow, col), Or(At(originalRow, col), ""))

\* Mutant: the aligned path prefers the original's cell in the last column
\* too.
AlignedCell_PreferOriginal(originalRow, newRow, col, ncols) ==
    IF col = 0 THEN Or(At(originalRow, col), "")
    ELSE Or(At(originalRow, col), Or(At(newRow, col), ""))

\* The aligned path: one cell of the result.
AlignedCell(originalRow, newRow, col, ncols) ==
    IF col = 0 THEN Or(At(originalRow, col), "")
    ELSE IF col < ncols - 1 THEN Or(At(originalRow, col), Or(At(newRow, col), ""))
    ELSE Or(At(newRow, col), Or(At(originalRow, col), ""))

AlignedRows(tableData, parsedRows) ==
    [idx \in 1..Len(parsedRows) |->
        [c \in 1..Len(tableData.headers) |->
            AlignedCell(tableData.rows[idx], parsedRows[idx], c - 1, Len(tableData.headers))]]

searchAndFillRows(tableData, parsedRows) ==
    LET forced == IF Len(parsedRows) # Len(tableData.rows)
                  THEN MatchByFirstColumn(tableData, parsedRows)
                  ELSE AlignedRows(tableData, parsedRows)
    IN  [idx \in 1..Len(forced) |->
            PadRow(forced[idx], RowOrEmpty(tableData.rows, idx), Len(tableData.headers))]

FailureMessage == "failed, retry"

\* Mutant: the original headers are not forced on the candidate.
searchAndFill_CandidateHeaders(tableData, completion) ==
    IF NoResponseContent(completion)
    THEN Raised(ErrNoResponse)
    ELSE IF \/ parseJsonResponseThrows(completion)
            \/ completion.kind = "jsonNull"
            \/ ~completion.table.defined
            \/ ~completion.table.hasRows
         THEN Returned(Undefined, tableData, FailureMessage)
         ELSE Returned(Undefined,
                       Table(completion.table.headers,
                             searchAndFillRows(tableData, completion.table.rows)),
                       completion.message)

searchAndFill(tableData, completion) ==
    IF NoResponseContent(completion)
    THEN Raised(ErrNoResponse)
    ELSE IF \/ parseJsonResponseThrows(completion)
            \/ completion.kind = "jsonNull"
            \/ ~completion.table.defined
            \/ ~completion.table.hasRows
         THEN Returned(Undefined, tableData, FailureMessage)
         ELSE Returned(Undefined,
                       Table(tableData.headers, searchAndFillRows(tableData, completion.table.rows)),
                       completion.message)

(***************************************************************************)
(* modifyTable: only the column count of each row is enforced, against the *)
(* candidate's own headers.                                                *)
(***************************************************************************)
\* Mutant: the rows are sized against the original's headers.
modifyTableRows_OriginalCols(tableData, parsedTable) ==
    LET expectedCols == Len(tableData.headers)
    IN  [idx \in 1..Len(parsedTable.rows) |->
            PadRow(parsedTable.rows[idx], RowOrEmpty(tableData.rows, idx), expectedCols)]

modifyTableRows(tableData, parsedTable) ==
    LET expectedCols == Len(parsedTable.headers)
    IN  [idx \in 1..Len(parsedTable.rows) |->
            PadRow(parsedTable.rows[idx], RowOrEmpty(tableData.rows, idx), expectedCols)]

modifyTable(tableData, completion) ==
    IF NoResponseContent(completion)
    THEN Raised(ErrNoResponse)
    ELSE IF \/ parseJsonResponseThrows(completion)
            \/ completion.kind = "jsonNull"
            \/ ~completion.table.defined
            \/ ~completion.table.hasHeaders
            \/ ~completion.table.hasRows
         THEN Returned(Undefined, tableData, FailureMessage)
         ELSE Returned(Undefined,
                       Table(completion.table.headers, modifyTableRows(tableData, completion.table)),
                       completion.message)

(***************************************************************************)
(* The state: one call of a table mutation on the server.                  *)
(***************************************************************************)
VARIABLES
    apiKey,        \* ENV.geminiApiKey is configured
    pc,            \* "idle", "invoke" (in invokeLLM), "fetch" (awaiting fetch), "done"
    op,            \* the mutation called: "recognize", "search", "modify", or "none"
    input,         \* input.tableData of the call
    gateway,       \* how invokeLLM ended: "none" (not yet), "noKey", "networkError",
                   \* "httpError" (it threw) or "ok" (it returned the choices)
    completion,    \* what the backend answered, once fetch has resolved
    llmCalls,      \* calls of invokeLLM made by this mutation call
    httpRequests,  \* outbound HTTP requests made by this mutation call
    result         \* what the mutation returned or raised

\* The state of one extraction of a model's answer.
VARIABLES
    jsonText,      \* the JSON text the model means to answer with
    content,       \* the text of the answer, as parseJsonResponse receives it
    extracted      \* what parseJsonResponse made of it

extractionVars == <<jsonText, content, extracted>>

\* The state of one instance of the hook useDocuments and of the storage
\* under it.
VARIABLES
    storage,       \* the item STORAGE_KEY of AsyncStorage: NoItem or the list saved
    documents,     \* the hook's state documents
    loading,       \* the hook's state loading
    loadPending,   \* a call of loadDocuments awaits AsyncStorage.getItem
    pending,       \* the calls of saveDocuments that have not returned yet
    invoked,       \* the last call made on the hook, and how many were made
    reply,         \* what the last call to return has returned
    now            \* the clock read by new Date()

storeVars == <<storage, documents, loading, loadPending, pending, invoked, reply, now>>

\* The state of the editor screen.
VARIABLES
    edDocument,    \* EditorScreen's state document
    edTableData,   \* EditorScreen's state tableData
    hasChanges,    \* EditorScreen's state hasChanges
    aiLoading,     \* EditorScreen's state aiLoading
    aiMutation     \* the mutation object of the last AI command: its type, its
                   \* status, its input and, on success, its data

editorVars == <<edDocument, edTableData, hasChanges, aiLoading, aiMutation>>

\* The state of the component TableEditor, with the table its parent holds.
VARIABLES
    tableData,     \* the prop tableData: the table the parent holds
    editingCell,   \* TableEditor's state editingCell (row -1 is the header row)
    editValue      \* TableEditor's state editValue

tableEditorVars == <<tableData, editingCell, editValue>>

clientVars == <<storeVars, editorVars, tableEditorVars>>

\* The state of the server when several mutation calls are in progress.
VARIABLES
    calls          \* per call in progress: the mutation, the table the client
                   \* sent, the table object the handler holds, the answer of
                   \* the backend and what the call returned

serverVars ==
    <<apiKey, pc, op, input, gateway, completion, llmCalls, httpRequests, result, calls>>

vars == <<serverVars, extractionVars, clientVars>>

NoCompletion == Completion("none", NoTable, Undefined, Undefined)

NoText == <<Undefined>>
NotExtracted == [ok |-> FALSE, value |-> NoText]

\* The calls that may be in progress at a time, and a call not made.
Slots == {1, 2}
IdleCall ==
    [pc |-> "idle", op |-> "none", sent |-> NoTable, input |-> NoTable,
     completion |-> NoCompletion, result |-> NoResult]

\* No call on the server, no answer under extraction.
ServerIdle ==
    /\ calls = [i \in Slots |-> IdleCall]
    /\ pc = "idle"
    /\ op = "none"
    /\ input = NoTable
    /\ gateway = "none"
    /\ completion = NoCompletion
    /\ llmCalls = 0
    /\ httpRequests = 0
    /\ result = NoResult

ExtractionIdle ==
    /\ jsonText = NoText
    /\ content = NoText
    /\ extracted = NotExtracted

\* JavaScript's null, and a key that an object does not hold.
Null == "null"
Absent == "absent"

\* A document, and the place of a document when there is none.
Doc(id, title, description, table, createdAt, updatedAt) ==
    [id |-> id, title |-> title, description |-> description, tableData |-> table,
     createdAt |-> createdAt, updatedAt |-> updatedAt]
NoDoc == Doc(-1, Undefined, Undefined, Null, -1, -1)

\* The item of AsyncStorage: absent (getItem gives null) or a list saved.
NoItem == [exists |-> FALSE, docs |-> <<>>]
Item(docs) == [exists |-> TRUE, docs |-> docs]

\* A call on the hook, and what a call returned: null, false, true or a
\* document.
NoCall == [call |-> "none", id |-> 0, n |-> 0]
Reply(call, id, returned, doc) == [call |-> call, id |-> id, returned |-> returned, doc |-> doc]
NoReply == Reply("none", 0, "nothing", NoDoc)

\* The mutation object of an AI command, and the object before any command.
Mutation(type, status, table, data) ==
    [type |-> type, status |-> status, input |-> table, data |-> data]
NoMutation == Mutation("none", "idle", Null, Null)

\* The hook as useState leaves it, nothing stored, nothing called.
StoreIdle ==
    /\ storage = NoItem
    /\ documents = <<>>
    /\ loading = TRUE
    /\ loadPending = FALSE
    /\ pending = <<>>
    /\ invoked = NoCall
    /\ reply = NoReply
    /\ now = 0

\* The editor screen as useState leaves it.
EditorIdle ==
    /\ edDocument = NoDoc
    /\ edTableData = Null
    /\ hasChanges = FALSE
    /\ aiLoading = FALSE
    /\ aiMutation = NoMutation

\* No table editor is mounted.
NoCell == [row |-> -2, col |-> -2]
TableEditorIdle ==
    /\ tableData = NoTable
    /\ editingCell = NoCell
    /\ editValue = ""

Init ==
    /\ apiKey \in BOOLEAN
    /\ ServerIdle
    /\ ExtractionIdle
    /\ StoreIdle
    /\ EditorIdle
    /\ TableEditorIdle

\* A client calls one of the three mutations; the handler builds its prompts
\* and calls invokeLLM.  recognizeFromImage has no input table.
Call ==
    /\ pc = "idle"
    /\ \/ op' = "recognize" /\ input' = NoTable
       \/ op' \in {"search", "modify"} /\ input' \in InputTables
    /\ pc' = "invoke"
    /\ llmCalls' = llmCalls + 1
    /\ UNCHANGED <<apiKey, gateway, completion, httpRequests, result>>
    /\ UNCHANGED <<extractionVars, clientVars, calls>>

\* invokeLLM: assertApiKey throws; the mutation does not catch it.
assertApiKeyThrows ==
    /\ pc = "invoke"
    /\ ~apiKey
    /\ pc' = "done"
    /\ gateway' = "noKey"
    /\ result' = Raised(ErrApiKey)
    /\ UNCHANGED <<apiKey, op, input, completion, llmCalls, httpRequests>>
    /\ UNCHANGED <<extractionVars, clientVars, calls>>

\* Mutant: the credential is not asserted before the request is sent.
invokeLLMFetch_NoAssert ==
    /\ pc = "invoke"
    /\ pc' = "fetch"
    /\ httpRequests' = httpRequests + 1
    /\ UNCHANGED <<apiKey, op, input, gateway, completion, llmCalls, result>>
    /\ UNCHANGED <<extractionVars, clientVars, calls>>

\* invokeLLM: the payload is built and fetch is called.
invokeLLMFetch ==
    /\ pc = "invoke"
    /\ apiKey
    /\ pc' = "fetch"
    /\ httpRequests' = httpRequests + 1
    /\ UNCHANGED <<apiKey, op, input, gateway, completion, llmCalls, result>>
    /\ UNCHANGED <<extractionVars, clientVars, calls>>

\* fetch rejects (network error): invokeLLM rejects and so does the mutation.
FetchRejects ==
    /\ pc = "fetch"
    /\ pc' = "done"
    /\ gateway' = "networkError"
    /\ result' = Raised(ErrNetwork)
    /\ UNCHANGED <<apiKey, op, input, completion, llmCalls, httpRequests>>
    /\ UNCHANGED <<extractionVars, clientVars, calls>>

\* Mutant: a non-success status is answered with a second request.
FetchNotOk_Retry ==
    /\ pc = "fetch"
    /\ IF httpRequests < 2
       THEN pc' = "invoke" /\ UNCHANGED <<gateway, result>>
       ELSE pc' = "done" /\ gateway' = "httpError" /\ result' = Raised(ErrInvoke)
    /\ UNCHANGED <<apiKey, op, input, completion, llmCalls, httpRequests>>
    /\ UNCHANGED <<extractionVars, clientVars, calls>>

\* The backend answers with a non-success status: invokeLLM throws.
FetchNotOk ==
    /\ pc = "fetch"
    /\ pc' = "done"
    /\ gateway' = "httpError"
    /\ result' = Raised(ErrInvoke)
    /\ UNCHANGED <<apiKey, op, input, completion, llmCalls, httpRequests>>
    /\ UNCHANGED <<extractionVars, clientVars, calls>>

\* What the mutation does with the completion.
Handle(o, t, c) ==
    IF o = "recognize" THEN recognizeFromImage(c)
    ELSE IF o = "search" THEN searchAndFill(t, c)
    ELSE modifyTable(t, c)

\* The backend answers with a success status: invokeLLM returns the choices
\* and the mutation runs to its end.
FetchOk ==
    /\ pc = "fetch"
    /\ \E c \in Completions(input) :
          /\ completion' = c
          /\ result' = Handle(op, input, c)
    /\ gateway' = "ok"
    /\ pc' = "done"
    /\ UNCHANGED <<apiKey, op, input, llmCalls, httpRequests>>
    /\ UNCHANGED <<extractionVars, clientVars, calls>>

\* The call is over; the server is ready for the next one.
Finish ==
    /\ pc = "done"
    /\ pc' = "idle"
    /\ op' = "none"
    /\ input' = NoTable
    /\ gateway' = "none"
    /\ completion' = NoCompletion
    /\ llmCalls' = 0
    /\ httpRequests' = 0
    /\ result' = NoResult
    /\ UNCHANGED apiKey
    /\ UNCHANGED <<extractionVars, clientVars, calls>>

Next ==
    \/ Call
    \/ assertApiKeyThrows
    \/ invokeLLMFetch
    \/ FetchRejects
    \/ FetchNotOk
    \/ FetchOk
    \/ Finish

Spec == Init /\ [][Next]_vars

(***************************************************************************)
(* The extraction of one answer: the model answers with its JSON text     *)
(* alone or inside a fenced block, and parseJsonResponse is applied.       *)
(***************************************************************************)
InitExtraction ==
    /\ apiKey = TRUE
    /\ ServerIdle
    /\ jsonText \in JsonTexts
    /\ content = NoText
    /\ extracted = NotExtracted
    /\ StoreIdle
    /\ EditorIdle
    /\ TableEditorIdle

\* The answer is the JSON text alone.
AnswerBare ==
    /\ content = NoText
    /\ content' = jsonText
    /\ UNCHANGED <<jsonText, extracted, serverVars, clientVars>>

\* The answer holds the JSON text in a fenced block.
AnswerFenced ==
    /\ content = NoText
    /\ \E w \in Wrappings : content' = Wrapped(jsonText, w)
    /\ UNCHANGED <<jsonText, extracted, serverVars, clientVars>>

\* parseJsonResponse(responseContent)
Extract ==
    /\ content # NoText
    /\ extracted = NotExtracted
    /\ extracted' = parseJsonResponse(content)
    /\ UNCHANGED <<jsonText, content, serverVars, clientVars>>

NextExtraction ==
    \/ AnswerBare
    \/ AnswerFenced
    \/ Extract

SpecExtraction == InitExtraction /\ [][NextExtraction]_vars

(***************************************************************************)
(* The document store: the hook useDocuments over AsyncStorage.            *)
(***************************************************************************)
MaxCalls == 2
MaxClock == 1
MaxPending == 2

\* The tables a document may hold (the store does not look into them).
ClientTables == {"T1", "T2", "T3"}

\* A document saved by an earlier run of the application.
StoredDoc == Doc(0, "t1", Undefined, "T1", 0, 0)

\* The ids of the calls, and the ids a caller may pass.
DocIds == 0..MaxCalls

\* The objects a caller may pass as updates: each of the three keys is
\* given or not.
UpdateSets ==
    [title : {Absent, "t2"}, description : {Absent, "d2"}, tableData : {Absent, "T2"}]

\* documents.findIndex(doc => doc.id === id), counted from 1; 0 for -1.
findIndex(docs, id) ==
    LET hits == {i \in 1..Len(docs) : docs[i].id = id}
    IN  IF hits = {} THEN 0 ELSE CHOOSE i \in hits : \A k \in hits : i <= k

\* Mutant: updatedAt is not refreshed.
updatedDoc_StaleStamp(doc, updates, at) ==
    [id |-> doc.id,
     title |-> IF updates.title = Absent THEN doc.title ELSE updates.title,
     description |-> IF updates.description = Absent THEN doc.description
                     ELSE updates.description,
     tableData |-> IF updates.tableData = Absent THEN doc.tableData ELSE updates.tableData,
     createdAt |-> doc.createdAt,
     updatedAt |-> doc.updatedAt]

\* { ...documents[index], ...updates, updatedAt: new Date().toISOString() }
updatedDoc(doc, updates, at) ==
    [id |-> doc.id,
     title |-> IF updates.title = Absent THEN doc.title ELSE updates.title,
     description |-> IF updates.description = Absent THEN doc.description
                     ELSE updates.description,
     tableData |-> IF updates.tableData = Absent THEN doc.tableData ELSE updates.tableData,
     createdAt |-> doc.createdAt,
     updatedAt |-> at]

\* newDocs of updateDocument, for an id that findIndex finds.
updateDocumentDocs(docs, id, updates, at) ==
    [docs EXCEPT ![findIndex(docs, id)] = updatedDoc(@, updates, at)]

\* newDocs of deleteDocument: documents.filter(doc => doc.id !== id)
deleteDocumentDocs(docs, id) ==
    SelectSeq(docs, LAMBDA d : d.id # id)

\* newDocs of createDocument: [newDoc, ...documents]
createDocumentDocs(docs, newDoc) == <<newDoc>> \o docs

\* A call of saveDocuments(docs) in flight, made by call on the document
\* id; value is what the call will return, seen the documents the call was
\* made on, pc the await it stands at.
Save(call, id, docs, value, seen, updates, at, caller) ==
    [call |-> call, id |-> id, docs |-> docs, value |-> value, seen |-> seen,
     updates |-> updates, at |-> at, caller |-> caller, pc |-> "setItem"]

NoUpdates == [title |-> Absent, description |-> Absent, tableData |-> Absent]

\* The sequence without its k-th element.
Without(seq, k) == SubSeq(seq, 1, k - 1) \o SubSeq(seq, k + 1, Len(seq))

\* The hook is mounted: its first effect has called loadDocuments.
InitStore ==
    /\ apiKey = TRUE
    /\ ServerIdle
    /\ ExtractionIdle
    /\ EditorIdle
    /\ TableEditorIdle
    /\ storage \in {NoItem, Item(<<StoredDoc>>)}
    /\ documents = <<>>
    /\ loading = TRUE
    /\ loadPending = TRUE
    /\ pending = <<>>
    /\ invoked = NoCall
    /\ reply = NoReply
    /\ now = 0

\* Time passes.
Tick ==
    /\ now < MaxClock
    /\ now' = now + 1
    /\ UNCHANGED <<storage, documents, loading, loadPending, pending, invoked, reply>>
    /\ UNCHANGED <<serverVars, extractionVars, editorVars, tableEditorVars>>

\* loadDocuments: getItem resolves, the list stored (if any) becomes the
\* state, loading ends.
loadDocuments ==
    /\ loadPending
    /\ loadPending' = FALSE
    /\ documents' = IF storage.exists THEN storage.docs ELSE documents
    /\ loading' = FALSE
    /\ UNCHANGED <<storage, pending, invoked, reply, now>>
    /\ UNCHANGED <<serverVars, extractionVars, editorVars, tableEditorVars>>

\* loadDocuments: getItem rejects; the error is logged, loading ends.
loadDocumentsFails ==
    /\ loadPending
    /\ loadPending' = FALSE
    /\ loading' = FALSE
    /\ UNCHANGED <<storage, documents, pending, invoked, reply, now>>
    /\ UNCHANGED <<serverVars, extractionVars, editorVars, tableEditorVars>>

\* refreshDocuments (the screen gets the focus, or the list is pulled).
refreshDocuments ==
    /\ invoked.n < MaxCalls
    /\ ~loadPending
    /\ loadPending' = TRUE
    /\ invoked' = [call |-> "refresh", id |-> 0, n |-> invoked.n + 1]
    /\ UNCHANGED <<storage, documents, loading, pending, reply, now>>
    /\ UNCHANGED <<serverVars, extractionVars, editorVars, tableEditorVars>>

\* createDocument: the new document heads a copy of the list, which is
\* handed to saveDocuments.
createDocument ==
    /\ invoked.n < MaxCalls
    /\ Len(pending) < MaxPending
    /\ LET newDoc == Doc(invoked.n + 1, "t1", Undefined, "T1", now, now)
       IN  /\ invoked' = [call |-> "create", id |-> newDoc.id, n |-> invoked.n + 1]
           /\ pending' = Append(pending,
                  Save("create", newDoc.id, createDocumentDocs(documents, newDoc),
                       Reply("create", newDoc.id, "doc", newDoc),
                       documents, NoUpdates, now, "screen"))
    /\ UNCHANGED <<storage, documents, loading, loadPending, reply, now>>
    /\ UNCHANGED <<serverVars, extractionVars, editorVars, tableEditorVars>>

\* Mutant: the list is saved also when findIndex finds nothing.
updateDocument_SaveAnyway ==
    /\ invoked.n < MaxCalls
    /\ Len(pending) < MaxPending
    /\ \E id \in DocIds, updates \in UpdateSets :
          /\ invoked' = [call |-> "update", id |-> id, n |-> invoked.n + 1]
          /\ IF findIndex(documents, id) = 0
             THEN /\ pending' = Append(pending,
                         Save("update", id, documents, Reply("update", id, "null", NoDoc),
                              documents, updates, now, "screen"))
                  /\ UNCHANGED reply
             ELSE /\ pending' = Append(pending,
                         Save("update", id, updateDocumentDocs(documents, id, updates, now),
                              Reply("update", id, "doc",
                                    updatedDoc(documents[findIndex(documents, id)], updates, now)),
                              documents, updates, now, "screen"))
                  /\ UNCHANGED reply
    /\ UNCHANGED <<storage, documents, loading, loadPending, now>>
    /\ UNCHANGED <<serverVars, extractionVars, editorVars, tableEditorVars>>

\* updateDocument: null when findIndex finds nothing; otherwise the list
\* with the updated document in its place is handed to saveDocuments.
updateDocument ==
    /\ invoked.n < MaxCalls
    /\ \E id \in DocIds, updates \in UpdateSets :
          /\ invoked' = [call |-> "update", id |-> id, n |-> invoked.n + 1]
          /\ IF findIndex(documents, id) = 0
             THEN /\ reply' = Reply("update", id, "null", NoDoc)
                  /\ UNCHANGED pending
             ELSE /\ Len(pending) < MaxPending
                  /\ pending' = Append(pending,
                         Save("update", id, updateDocumentDocs(documents, id, updates, now),
                              Reply("update", id, "doc",
                                    updatedDoc(documents[findIndex(documents, id)], updates, now)),
                              documents, updates, now, "screen"))
                  /\ UNCHANGED reply
    /\ UNCHANGED <<storage, documents, loading, loadPending, now>>
    /\ UNCHANGED <<serverVars, extractionVars, editorVars, tableEditorVars>>

\* deleteDocument: false when the filter removes nothing; otherwise the
\* filtered list is handed to saveDocuments.
deleteDocument ==
    /\ invoked.n < MaxCalls
    /\ \E id \in DocIds :
          /\ invoked' = [call |-> "delete", id |-> id, n |-> invoked.n + 1]
          /\ IF Len(deleteDocumentDocs(documents, id)) = Len(documents)
             THEN /\ reply' = Reply("delete", id, "false", NoDoc)
                  /\ UNCHANGED pending
             ELSE /\ Len(pending) < MaxPending
                  /\ pending' = Append(pending,
                         Save("delete", id, deleteDocumentDocs(documents, id),
                              Reply("delete", id, "true", NoDoc),
                              documents, NoUpdates, now, "screen"))
                  /\ UNCHANGED reply
    /\ UNCHANGED <<storage, documents, loading, loadPending, now>>
    /\ UNCHANGED <<serverVars, extractionVars, editorVars, tableEditorVars>>

\* saveDocuments: AsyncStorage.setItem has written the list.
setItem ==
    /\ \E k \in 1..Len(pending) :
          /\ pending[k].pc = "setItem"
          /\ storage' = Item(pending[k].docs)
          /\ pending' = [pending EXCEPT ![k].pc = "setDocuments"]
    /\ UNCHANGED <<documents, loading, loadPending, invoked, reply, now>>
    /\ UNCHANGED <<serverVars, extractionVars, editorVars, tableEditorVars>>

\* saveDocuments: AsyncStorage.setItem rejects; the error is logged, the
\* state is not set, and the call returns what it would have returned.
setItemFails ==
    /\ \E k \in 1..Len(pending) :
          /\ pending[k].pc = "setItem"
          /\ reply' = pending[k].value
          /\ pending' = Without(pending, k)
    /\ UNCHANGED <<storage, documents, loading, loadPending, invoked, now>>
    /\ UNCHANGED <<serverVars, extractionVars, editorVars, tableEditorVars>>

\* saveDocuments: setDocuments(docs), and the call returns.
setDocuments ==
    /\ \E k \in 1..Len(pending) :
          /\ pending[k].pc = "setDocuments"
          /\ documents' = pending[k].docs
          /\ reply' = pending[k].value
          /\ pending' = Without(pending, k)
    /\ UNCHANGED <<storage, loading, loadPending, invoked, now>>
    /\ UNCHANGED <<serverVars, extractionVars, editorVars, tableEditorVars>>

NextStore ==
    \/ Tick
    \/ loadDocuments
    \/ loadDocumentsFails
    \/ refreshDocuments
    \/ createDocument
    \/ updateDocument
    \/ deleteDocument
    \/ setItem
    \/ setItemFails
    \/ setDocuments

SpecStore == InitStore /\ [][NextStore]_vars

(***************************************************************************)
(* The editor screen, opened on the document StoredDoc.id, over its own    *)
(* instance of the hook.                                                   *)
(***************************************************************************)
\* The effect of lines 41-50, run when getDocument has changed with the
\* list docs: the document of the route, if the list holds it, becomes the
\* editor's document and its table the editor's table.
EffectDocument(docs) ==
    IF findIndex(docs, StoredDoc.id) = 0 THEN edDocument
    ELSE docs[findIndex(docs, StoredDoc.id)]
EffectTableData(docs) ==
    IF findIndex(docs, StoredDoc.id) = 0 THEN edTableData
    ELSE docs[findIndex(docs, StoredDoc.id)].tableData

\* The screen shows the table editor and the input bar.
EditorShown == edDocument # NoDoc /\ edTableData # Null

\* The screen is mounted: the hook's first effect has called loadDocuments
\* and the editor's effect has found no document in the empty list.
InitEditor ==
    /\ apiKey = TRUE
    /\ ServerIdle
    /\ ExtractionIdle
    /\ EditorIdle
    /\ TableEditorIdle
    /\ storage \in {NoItem, Item(<<StoredDoc>>)}
    /\ documents = <<>>
    /\ loading = TRUE
    /\ loadPending = TRUE
    /\ pending = <<>>
    /\ invoked = NoCall
    /\ reply = NoReply
    /\ now = 0

\* loadDocuments resolves under the editor: the list stored becomes the
\* hook's state and the editor's effect runs on it.
editorLoadDocuments ==
    /\ loadPending
    /\ loadPending' = FALSE
    /\ loading' = FALSE
    /\ IF storage.exists
       THEN /\ documents' = storage.docs
            /\ edDocument' = EffectDocument(storage.docs)
            /\ edTableData' = EffectTableData(storage.docs)
       ELSE UNCHANGED <<documents, edDocument, edTableData>>
    /\ UNCHANGED <<storage, pending, invoked, reply, now, hasChanges, aiLoading, aiMutation>>
    /\ UNCHANGED <<serverVars, extractionVars, tableEditorVars>>

\* handleTableChange: the table editor hands over an edited table.
handleTableChange ==
    /\ EditorShown
    /\ ~aiLoading
    /\ \E newTableData \in ClientTables \ {edTableData} : edTableData' = newTableData
    /\ hasChanges' = TRUE
    /\ UNCHANGED <<edDocument, aiLoading, aiMutation, storeVars>>
    /\ UNCHANGED <<serverVars, extractionVars, tableEditorVars>>

\* handleAICommand up to its await: the mutation is sent with the editor's
\* table.
handleAICommand ==
    /\ EditorShown
    /\ ~aiLoading
    /\ aiLoading' = TRUE
    /\ \E type \in {"search", "modify"} :
          aiMutation' = Mutation(type, "pending", edTableData, Null)
    /\ UNCHANGED <<edDocument, edTableData, hasChanges, storeVars>>
    /\ UNCHANGED <<serverVars, extractionVars, tableEditorVars>>

\* Mutant: the table the mutation resolved with is saved at once.
mutateAsyncResolves_AutoSave ==
    /\ aiMutation.status = "pending"
    /\ \E data \in ClientTables :
          /\ aiMutation' = [aiMutation EXCEPT !.status = "success", !.data = data]
          /\ edTableData' = data
          /\ LET updates == [title |-> Absent, description |-> Absent, tableData |-> data]
             IN  pending' =
                   IF findIndex(documents, edDocument.id) = 0 \/ Len(pending) >= MaxPending
                   THEN pending
                   ELSE Append(pending,
                          Save("update", edDocument.id,
                               updateDocumentDocs(documents, edDocument.id, updates, now),
                               Reply("update", edDocument.id, "doc",
                                     updatedDoc(documents[findIndex(documents, edDocument.id)],
                                                updates, now)),
                               documents, updates, now, "handleAICommand"))
    /\ hasChanges' = TRUE
    /\ aiLoading' = FALSE
    /\ UNCHANGED <<edDocument, storage, documents, loading, loadPending, invoked, reply, now>>
    /\ UNCHANGED <<serverVars, extractionVars, tableEditorVars>>

\* handleAICommand after its await: the mutation resolved with a table.
mutateAsyncResolves ==
    /\ aiMutation.status = "pending"
    /\ \E data \in ClientTables :
          /\ aiMutation' = [aiMutation EXCEPT !.status = "success", !.data = data]
          /\ edTableData' = data
    /\ hasChanges' = TRUE
    /\ aiLoading' = FALSE
    /\ UNCHANGED <<edDocument, storeVars>>
    /\ UNCHANGED <<serverVars, extractionVars, tableEditorVars>>

\* handleAICommand after its await: the mutation rejected (catch, finally).
mutateAsyncRejects ==
    /\ aiMutation.status = "pending"
    /\ aiMutation' = [aiMutation EXCEPT !.status = "error"]
    /\ aiLoading' = FALSE
    /\ UNCHANGED <<edDocument, edTableData, hasChanges, storeVars>>
    /\ UNCHANGED <<serverVars, extractionVars, tableEditorVars>>

\* handleSave up to its await: updateDocument(document.id, { tableData }).
\* When the hook's list does not hold the document, updateDocument returns
\* null at once and handleSave goes on to setHasChanges(false).
handleSave ==
    /\ EditorShown
    /\ ~aiLoading
    /\ invoked.n < MaxCalls
    /\ LET id == edDocument.id
           updates == [title |-> Absent, description |-> Absent, tableData |-> edTableData]
       IN  /\ invoked' = [call |-> "update", id |-> id, n |-> invoked.n + 1]
           /\ IF findIndex(documents, id) = 0
              THEN /\ reply' = Reply("update", id, "null", NoDoc)
                   /\ hasChanges' = FALSE
                   /\ UNCHANGED pending
              ELSE /\ Len(pending) < MaxPending
                   /\ pending' = Append(pending,
                          Save("update", id, updateDocumentDocs(documents, id, updates, now),
                               Reply("update", id, "doc",
                                     updatedDoc(documents[findIndex(documents, id)], updates, now)),
                               documents, updates, now, "handleSave"))
                   /\ UNCHANGED <<reply, hasChanges>>
    /\ UNCHANGED <<storage, documents, loading, loadPending, now>>
    /\ UNCHANGED <<edDocument, edTableData, aiLoading, aiMutation>>
    /\ UNCHANGED <<serverVars, extractionVars, tableEditorVars>>

\* The save of handleSave fails in setItem: the state is not set, and
\* handleSave goes on to setHasChanges(false).
handleSaveSetItemFails ==
    /\ \E k \in 1..Len(pending) :
          /\ pending[k].pc = "setItem"
          /\ reply' = pending[k].value
          /\ pending' = Without(pending, k)
    /\ hasChanges' = FALSE
    /\ UNCHANGED <<storage, documents, loading, loadPending, invoked, now>>
    /\ UNCHANGED <<edDocument, edTableData, aiLoading, aiMutation>>
    /\ UNCHANGED <<serverVars, extractionVars, tableEditorVars>>

\* The save of handleSave ends: setDocuments(docs), handleSave goes on to
\* setHasChanges(false), and the editor's effect runs on the new list.
handleSaveSetDocuments ==
    /\ \E k \in 1..Len(pending) :
          /\ pending[k].pc = "setDocuments"
          /\ documents' = pending[k].docs
          /\ reply' = pending[k].value
          /\ pending' = Without(pending, k)
          /\ edDocument' = EffectDocument(pending[k].docs)
          /\ edTableData' = EffectTableData(pending[k].docs)
    /\ hasChanges' = FALSE
    /\ UNCHANGED <<storage, loading, loadPending, invoked, now>>
    /\ UNCHANGED <<aiLoading, aiMutation>>
    /\ UNCHANGED <<serverVars, extractionVars, tableEditorVars>>

NextEditor ==
    \/ Tick
    \/ editorLoadDocuments
    \/ handleTableChange
    \/ handleAICommand
    \/ mutateAsyncResolves
    \/ mutateAsyncRejects
    \/ handleSave
    \/ setItem
    \/ handleSaveSetItemFails
    \/ handleSaveSetDocuments

SpecEditor == InitEditor /\ [][NextEditor]_vars

(***************************************************************************)
(* Several calls at a time.  The server runs each mutation call as an      *)
(* async function over the input of its own request; two calls meet only   *)
(* at the await of the backend's answer, so a call is two steps: the       *)
(* request arrives and the handler sends its prompts, then the answer      *)
(* arrives and the handler runs to its end.  The steps of different calls  *)
(* come in any order.  The handlers read no variable that a call writes:   *)
(* the module's top level holds functions and the schema only.             *)
(***************************************************************************)
\* The tables the clients send: rectangular tables with distinct keys, the
\* last column filled or blank.
CallTables ==
    {InputTable(h, n, h, "even", "distinct", blanks) :
        h \in 2..MaxCols, n \in 1..MaxRows, blanks \in {"none", "last"}}

\* The answers of the backend to a call that showed it the table t: text
\* that is not JSON, or a table of the width of t, with t's headers or
\* others, with t's keys in order or reversed.
CallCompletions(t) ==
    {Completion("notJson", NoTable, Undefined, Undefined)} \cup
    {Completion("json", Table(h, CandidateRows(t, n, Len(t.headers), "even", keys, "new")),
                "t", "m") :
        h \in {t.headers, OtherHeaders(Len(t.headers))}, n \in 1..MaxRows,
        keys \in {"inOrder", "reversed"}}

\* The original table of a handler that keeps the table of the request in a
\* variable of the module: it is the table of the latest request.
HandlerInput_Shared(i) ==
    IF \E j \in Slots \ {i} : calls[j].pc = "awaiting"
    THEN calls[CHOOSE j \in Slots \ {i} : calls[j].pc = "awaiting"].input
    ELSE calls[i].input

\* The original table of the handler of call i: the tableData of its own
\* input, a parameter of the handler.
HandlerInput(i) == calls[i].input

InitConcurrent ==
    /\ apiKey = TRUE
    /\ ServerIdle
    /\ ExtractionIdle
    /\ StoreIdle
    /\ EditorIdle
    /\ TableEditorIdle

\* A request for searchAndFill or modifyTable arrives; the handler gets the
\* table the client sent as its input and awaits invokeLLM.
Invoke ==
    \E i \in Slots :
        /\ calls[i].pc = "idle"
        /\ \E o \in {"search", "modify"}, t \in CallTables :
              calls' = [calls EXCEPT ![i] =
                          [pc |-> "awaiting", op |-> o, sent |-> t, input |-> t,
                           completion |-> NoCompletion, result |-> NoResult]]
        /\ UNCHANGED <<apiKey, pc, op, input, gateway, completion, llmCalls, httpRequests, result>>
        /\ UNCHANGED <<extractionVars, clientVars>>

\* The backend answers call i and its handler runs to its end.  Every array
\* the handler writes to is one it made itself (the parsed answer, the
\* copies [...originalRow] and [...row], result), so its input is left as
\* it was.
Answer ==
    \E i \in Slots :
        /\ calls[i].pc = "awaiting"
        /\ \E c \in CallCompletions(calls[i].input) :
              calls' = [calls EXCEPT ![i].pc = "done",
                                     ![i].completion = c,
                                     ![i].result = Handle(calls[i].op, HandlerInput(i), c)]
        /\ UNCHANGED <<apiKey, pc, op, input, gateway, completion, llmCalls, httpRequests, result>>
        /\ UNCHANGED <<extractionVars, clientVars>>

\* The backend answers call i with an error status: invokeLLM throws and the
\* mutation raises the error.
AnswerNotOk ==
    \E i \in Slots :
        /\ calls[i].pc = "awaiting"
        /\ calls' = [calls EXCEPT ![i].pc = "done", ![i].result = Raised(ErrInvoke)]
        /\ UNCHANGED <<apiKey, pc, op, input, gateway, completion, llmCalls, httpRequests, result>>
        /\ UNCHANGED <<extractionVars, clientVars>>

\* The response of call i is sent; nothing of the call is kept.
Respond ==
    \E i \in Slots :
        /\ calls[i].pc = "done"
        /\ calls' = [calls EXCEPT ![i] = IdleCall]
        /\ UNCHANGED <<apiKey, pc, op, input, gateway, completion, llmCalls, httpRequests, result>>
        /\ UNCHANGED <<extractionVars, clientVars>>

NextConcurrent ==
    \/ Invoke
    \/ Answer
    \/ AnswerNotOk
    \/ Respond

SpecConcurrent == InitConcurrent /\ [][NextConcurrent]_vars

(***************************************************************************)
(* The editor screen during AI commands, with the cell edits of its table  *)
(* editor in two steps (press, commit).  The table editor is rendered with *)
(* editable = !aiLoading and the input bar with loading = aiLoading.  The  *)
(* promise of mutateAsync settles: the request ends with the server's      *)
(* answer or with an error, and the await of handleAICommand goes on.      *)
(***************************************************************************)
\* The cell the editor's table shows under edit.
EditedCell == [row |-> 0, col |-> 0]

\* Mutant: the table editor takes the press whatever editable is.
editorCellPress_Uneditable ==
    /\ EditorShown
    /\ editingCell = NoCell
    /\ editingCell' = EditedCell
    /\ UNCHANGED <<tableData, editValue, storeVars, editorVars>>
    /\ UNCHANGED <<serverVars, extractionVars>>

\* TableEditor.handleCellPress: nothing unless editable.
editorCellPress ==
    /\ EditorShown
    /\ ~aiLoading
    /\ editingCell = NoCell
    /\ editingCell' = EditedCell
    /\ UNCHANGED <<tableData, editValue, storeVars, editorVars>>
    /\ UNCHANGED <<serverVars, extractionVars>>

\* TableEditor.handleCellBlur: the cell under edit is committed, whatever
\* editable is, and handleTableChange takes the table.
editorCellBlur ==
    /\ EditorShown
    /\ editingCell # NoCell
    /\ editingCell' = NoCell
    /\ \E newTableData \in ClientTables \ {edTableData} : edTableData' = newTableData
    /\ hasChanges' = TRUE
    /\ UNCHANGED <<tableData, editValue, storeVars>>
    /\ UNCHANGED <<edDocument, aiLoading, aiMutation>>
    /\ UNCHANGED <<serverVars, extractionVars>>

NextEditorAI ==
    \/ editorLoadDocuments
    \/ editorCellPress
    \/ editorCellBlur
    \/ handleTableChange
    \/ handleAICommand
    \/ mutateAsyncResolves
    \/ mutateAsyncRejects
    \/ handleSave
    \/ setItem
    \/ handleSaveSetItemFails
    \/ handleSaveSetDocuments

SpecEditorAI ==
    /\ InitEditor
    /\ [][NextEditorAI]_vars
    /\ WF_vars(mutateAsyncResolves \/ mutateAsyncRejects)

(***************************************************************************)
(* The component TableEditor.  It holds the cell under edit and the text   *)
(* typed; the table is its parent's, which takes every table handed to     *)
(* onTableChange (setTableData) and hands it back as the prop.  The        *)
(* handlers are taken in any order, as the claim about them does; editable *)
(* is true.                                                                *)
(***************************************************************************)
EditorRows == 2
EditorCols == 2

\* The text the user types.
Typed == "e"

\* The header addColumn gives to column n.
ColumnName(n) == "col" \o ToString(n)

\* The tables the editor is opened on: every row has a cell per header,
\* there is a row and a column at least.
OpenedTables ==
    {Table([c \in 1..h |-> ColumnName(c)], [i \in 1..n |-> [c \in 1..h |-> ""]]) :
        h \in 1..EditorCols, n \in 1..EditorRows}

\* array.filter((_, i) => i !== index), index counted from 0.
FilterIndex(seq, index) ==
    IF index >= 0 /\ index < Len(seq) THEN Without(seq, index + 1) ELSE seq

\* newHeaders[col] = editValue on a copy of the headers: an index past the
\* end makes the array longer, with holes before the new element.
AssignAt(seq, col, v) ==
    [c \in 1..(IF col + 1 > Len(seq) THEN col + 1 ELSE Len(seq)) |->
        IF c = col + 1 THEN v ELSE IF c <= Len(seq) THEN seq[c] ELSE Undefined]

\* r.map((c, j) => j === col ? editValue : c)
MapAt(seq, col, v) == [c \in 1..Len(seq) |-> IF c = col + 1 THEN v ELSE seq[c]]

InitTable ==
    /\ apiKey = TRUE
    /\ ServerIdle
    /\ ExtractionIdle
    /\ StoreIdle
    /\ EditorIdle
    /\ tableData \in OpenedTables
    /\ editingCell = NoCell
    /\ editValue = ""

\* handleCellPress on a cell shown: a header (row -1) or a cell of a row.
handleCellPress ==
    /\ \E row \in -1..(Len(tableData.rows) - 1) :
          LET shown == IF row = -1 THEN tableData.headers ELSE tableData.rows[row + 1]
          IN  \E col \in 0..(Len(shown) - 1) :
                  /\ editingCell' = [row |-> row, col |-> col]
                  /\ editValue' = IF shown[col + 1] = Undefined THEN "" ELSE shown[col + 1]
    /\ UNCHANGED tableData
    /\ UNCHANGED <<serverVars, extractionVars, storeVars, editorVars>>

\* onChangeText of the input shown in the cell under edit.
onChangeText ==
    /\ editingCell # NoCell
    /\ editValue' = Typed
    /\ UNCHANGED <<tableData, editingCell>>
    /\ UNCHANGED <<serverVars, extractionVars, storeVars, editorVars>>

\* handleCellBlur: the text typed is committed to the header or the cell
\* that editingCell names, in the table as it is now.
handleCellBlur ==
    /\ editingCell # NoCell
    /\ LET row == editingCell.row
           col == editingCell.col
       IN  tableData' =
             IF row = -1
             THEN [tableData EXCEPT !.headers = AssignAt(tableData.headers, col, editValue)]
             ELSE [tableData EXCEPT !.rows =
                      [i \in 1..Len(tableData.rows) |->
                          IF i = row + 1 THEN MapAt(tableData.rows[i], col, editValue)
                          ELSE tableData.rows[i]]]
    /\ editingCell' = NoCell
    /\ editValue' = ""
    /\ UNCHANGED <<serverVars, extractionVars, storeVars, editorVars>>

\* addRow: a row of empty strings, one per header.
addRow ==
    /\ Len(tableData.rows) < EditorRows
    /\ tableData' = [tableData EXCEPT !.rows =
                        Append(@, [c \in 1..Len(tableData.headers) |-> ""])]
    /\ UNCHANGED <<editingCell, editValue>>
    /\ UNCHANGED <<serverVars, extractionVars, storeVars, editorVars>>

\* addColumn: a header more, and an empty string more in every row.
addColumn ==
    /\ Len(tableData.headers) < EditorCols
    /\ tableData' = [tableData EXCEPT
                        !.headers = Append(@, ColumnName(Len(tableData.headers) + 1)),
                        !.rows = [i \in 1..Len(tableData.rows) |-> Append(tableData.rows[i], "")]]
    /\ UNCHANGED <<editingCell, editValue>>
    /\ UNCHANGED <<serverVars, extractionVars, storeVars, editorVars>>

\* deleteRow(index): nothing when one row is left.
deleteRow ==
    /\ \E index \in 0..(Len(tableData.rows) - 1) :
          tableData' =
             IF Len(tableData.rows) <= 1 THEN tableData
             ELSE [tableData EXCEPT !.rows = FilterIndex(@, index)]
    /\ UNCHANGED <<editingCell, editValue>>
    /\ UNCHANGED <<serverVars, extractionVars, storeVars, editorVars>>

\* deleteColumn(index): nothing when one header is left.
deleteColumn ==
    /\ \E index \in 0..(Len(tableData.headers) - 1) :
          tableData' =
             IF Len(tableData.headers) <= 1 THEN tableData
             ELSE [tableData EXCEPT
                      !.headers = FilterIndex(@, index),
                      !.rows = [i \in 1..Len(tableData.rows) |->
                                   FilterIndex(tableData.rows[i], index)]]
    /\ UNCHANGED <<editingCell, editValue>>
    /\ UNCHANGED <<serverVars, extractionVars, storeVars, editorVars>>

NextTable ==
    \/ handleCellPress
    \/ onChangeText
    \/ handleCellBlur
    \/ addRow
    \/ addColumn
    \/ deleteRow
    \/ deleteColumn

SpecTable == InitTable /\ [][NextTable]_vars

(***************************************************************************)
(* Vocabulary of the properties.                                           *)
(***************************************************************************)
\* The mutation o has ended.
Ended(o) == pc = "done" /\ op = o

\* The mutation o has returned a value (it did not raise).
HasReturned(o) == Ended(o) /\ result.outcome = "returned"

\* invokeLLM threw: no credential, a network error or a non-success status.
GatewayFailed == gateway \in {"noKey", "networkError", "httpError"}

\* The completion parsed to an object whose tableData holds headers and rows.
CandidateParsed ==
    /\ gateway = "ok"
    /\ completion.kind = "json"
    /\ completion.table.defined
    /\ completion.table.hasHeaders
    /\ completion.table.hasRows

\* searchAndFill took the path past its try block's reconciliation.
SearchReconciled ==
    /\ HasReturned("search")
    /\ completion.kind = "json"
    /\ completion.table.defined
    /\ completion.table.hasRows

\* Every row of the table has as many cells as the table has headers.
Rectangular(t) == \A i \in 1..Len(t.rows) : Len(t.rows[i]) = Len(t.headers)

\* The value returned holds a table with headers and rows.
ReturnsTable ==
    /\ pc = "done"
    /\ result.outcome = "returned"
    /\ result.tableData.defined
    /\ result.tableData.hasHeaders
    /\ result.tableData.hasRows

(***************************************************************************)
(* C1.  Column-count invariant: whichever of the three operations returns  *)
(* a table, on the success path or on the parse-failure path, every row of *)
(* the returned table has as many cells as the returned table has headers. *)
(* The code does not keep it: recognizeFromImage returns the candidate as  *)
(* parsed, and the catch blocks return the input table as given.           *)
(***************************************************************************)
C1_ColumnCount == ReturnsTable => Rectangular(result.tableData)

(***************************************************************************)
(* C2.  The key column of searchAndFill is immutable: in every returned    *)
(* table, row i has the first cell of row i of the original, also when the *)
(* candidate has another number of rows and also with a single column.     *)
(* Stated here for the input tables whose rows have as many cells as there *)
(* are headers; the code breaks it on the row-count mismatch path of a     *)
(* table with one column.                                                  *)
(***************************************************************************)
C2_KeyColumnImmutable ==
    (HasReturned("search") /\ Rectangular(input)) =>
        /\ Len(result.tableData.rows) = Len(input.rows)
        /\ \A i \in 1..Len(input.rows) :
              At(result.tableData.rows[i], 0) = At(input.rows[i], 0)

(***************************************************************************)
(* C3.  Key column on the aligned path of searchAndFill: when the          *)
(* candidate has as many rows as the original, row i of the output has the *)
(* first cell of row i of the original, whatever the candidate put there.  *)
(***************************************************************************)
\* The candidate has as many rows as the original.
CandidateAligned ==
    /\ SearchReconciled
    /\ Len(completion.table.rows) = Len(input.rows)

\* As claimed, for all inputs: it fails on an original row without cells
\* (its key comes out as "") and on a table without headers (the rows come
\* out empty).
C3_KeyColumnAlignedAllInputs ==
    CandidateAligned =>
        \A i \in 1..Len(input.rows) :
            At(result.tableData.rows[i], 0) = At(input.rows[i], 0)

\* As amended: it holds for every original row that has a first cell, in a
\* table with at least one header.
C3_KeyColumnAligned ==
    CandidateAligned =>
        \A i \in 1..Len(input.rows) :
            (Len(input.headers) >= 1 /\ Len(input.rows[i]) >= 1) =>
                At(result.tableData.rows[i], 0) = At(input.rows[i], 0)

\* An aligned candidate that rewrote a key, and the output kept the original.
C3_Witness ==
    /\ CandidateAligned
    /\ Len(input.headers) >= 1
    /\ \E i \in 1..Len(input.rows) :
          /\ Len(input.rows[i]) >= 1
          /\ Truthy(At(completion.table.rows[i], 0))
          /\ At(completion.table.rows[i], 0) # At(input.rows[i], 0)
          /\ At(result.tableData.rows[i], 0) = At(input.rows[i], 0)

(***************************************************************************)
(* C4.  Header invariant of searchAndFill: whenever it returns, on the     *)
(* success path and on the parse-failure path, the returned headers are    *)
(* the original headers, whatever headers the candidate has.               *)
(***************************************************************************)
C4_HeadersPreserved ==
    HasReturned("search") =>
        /\ result.tableData.defined
        /\ result.tableData.hasHeaders
        /\ result.tableData.headers = input.headers

\* A reconciled answer whose candidate had other headers, of another length.
C4_Witness ==
    /\ SearchReconciled
    /\ completion.table.hasHeaders
    /\ Len(completion.table.headers) # Len(input.headers)
    /\ Len(input.headers) >= 1
    /\ result.message = completion.message
    /\ result.tableData.headers = input.headers

(***************************************************************************)
(* C5.  Row-count invariant of searchAndFill: whenever it returns, the     *)
(* output has as many rows as the original, whether the candidate has      *)
(* fewer, as many or more.                                                 *)
(***************************************************************************)
C5_RowCountPreserved ==
    HasReturned("search") =>
        /\ result.tableData.defined
        /\ result.tableData.hasRows
        /\ Len(result.tableData.rows) = Len(input.rows)

\* A reconciled answer whose candidate had more rows than the original.
C5_Witness ==
    /\ SearchReconciled
    /\ Len(input.rows) >= 1
    /\ Len(completion.table.rows) > Len(input.rows)
    /\ Len(result.tableData.rows) = Len(input.rows)

(***************************************************************************)
(* C6.  Recognition fallback: when the gateway call fails (no credential,  *)
(* a network error, a non-success status) recognizeFromImage returns the   *)
(* fallback table with the generic title and does not raise.  The code     *)
(* calls invokeLLM outside its try block, so the error reaches the caller. *)
(***************************************************************************)
C6_RecognitionFallback ==
    (Ended("recognize") /\ GatewayFailed) =>
        /\ result.outcome = "returned"
        /\ result.tableData = FallbackTable
        /\ result.title = FallbackTitle

(***************************************************************************)
(* C7.  A gateway failure in searchAndFill and modifyTable is not raised:  *)
(* the operation returns the original table with a failure explanation.    *)
(* The code calls invokeLLM outside its try block in both.                 *)
(***************************************************************************)
C7_GatewayFailureNotRaised ==
    (pc = "done" /\ op \in {"search", "modify"} /\ GatewayFailed) =>
        /\ result.outcome = "returned"
        /\ result.tableData = input
        /\ result.message = FailureMessage

(***************************************************************************)
(* C8.  A parse failure degrades: when the completion text is not empty    *)
(* and is not valid JSON, or is JSON without a tableData, searchAndFill    *)
(* and modifyTable return the original table with the failure explanation  *)
(* and recognizeFromImage returns the fallback table with the fallback     *)
(* title.  recognizeFromImage does not: for a JSON object without          *)
(* tableData it returns the missing tableData as it is.                    *)
(***************************************************************************)
ParseFailure ==
    /\ gateway = "ok"
    /\ \/ completion.kind \in {"notJson", "jsonNull"}
       \/ completion.kind = "json" /\ ~completion.table.defined

C8_ParseFailureDegrades ==
    (pc = "done" /\ ParseFailure) =>
        /\ result.outcome = "returned"
        /\ op = "recognize" =>
              (result.tableData = FallbackTable /\ result.title = FallbackTitle)
        /\ op \in {"search", "modify"} =>
              (result.tableData = input /\ result.message = FailureMessage)

(***************************************************************************)
(* C9.  An empty completion degrades: when the gateway call succeeds but   *)
(* there is no candidate, or its text is empty, each operation returns its *)
(* safe default.  The code throws outside the try block instead.           *)
(***************************************************************************)
C9_EmptyCompletionDegrades ==
    (pc = "done" /\ gateway = "ok" /\ NoResponseContent(completion)) =>
        /\ result.outcome = "returned"
        /\ op = "recognize" => result.tableData = FallbackTable
        /\ op \in {"search", "modify"} => result.tableData = input

(***************************************************************************)
(* C10.  Structural freedom of modifyTable: on a parsed candidate it       *)
(* returns the candidate's headers, as many rows as the candidate has, and *)
(* every row with as many cells as the candidate has headers.              *)
(***************************************************************************)
C10_ModifyStructuralFreedom ==
    (HasReturned("modify") /\ CandidateParsed) =>
        /\ result.tableData.headers = completion.table.headers
        /\ Len(result.tableData.rows) = Len(completion.table.rows)
        /\ \A i \in 1..Len(result.tableData.rows) :
              Len(result.tableData.rows[i]) = Len(completion.table.headers)

\* The example of the claim: an original of 2 columns and 1 row, a candidate
\* of 3 headers and 2 rows that are not 3 cells long, an output of 2 rows of
\* 3 cells.
C10_Witness ==
    /\ HasReturned("modify")
    /\ CandidateParsed
    /\ Len(input.headers) = 2
    /\ Len(input.rows) = 1
    /\ Len(input.rows[1]) = 2
    /\ Len(completion.table.headers) = 3
    /\ Len(completion.table.rows) = 2
    /\ \E i \in 1..2 : Len(completion.table.rows[i]) # 3
    /\ Len(result.tableData.rows) = 2
    /\ \A i \in 1..2 : Len(result.tableData.rows[i]) = 3

(***************************************************************************)
(* C11.  Padding uses the original's values.  The normalization of a row   *)
(* at index i (counted from 0) against the target count n keeps the row's  *)
(* own cells below its length, fills a missing cell c < n with the cell c  *)
(* of row i of the original when the original has one and with the empty   *)
(* string otherwise, and cuts a longer row to its first n cells.  In       *)
(* modifyTable the rows normalized are the candidate's and n is the number *)
(* of the candidate's headers; in searchAndFill the step runs on the rows  *)
(* already rebuilt, which on the row-count mismatch path are the           *)
(* original's, so a row without a match comes out as the original row cut  *)
(* or filled with empty strings to the number of original headers.         *)
(***************************************************************************)
\* Cell c (from 1) of the row at index i (from 1) once normalized to n cells.
NormalizedCell(row, originalRows, i, c) ==
    IF c <= Len(row) THEN row[c]
    ELSE IF i <= Len(originalRows) /\ c <= Len(originalRows[i]) THEN originalRows[i][c]
    ELSE ""

\* No row of the candidate carries the key of the original row.
Unmatched(originalRow) ==
    \A j \in 1..Len(completion.table.rows) :
        At(completion.table.rows[j], 0) # At(originalRow, 0)

C11_PaddingUsesOriginal ==
    /\ (HasReturned("modify") /\ CandidateParsed) =>
          /\ Len(result.tableData.rows) = Len(completion.table.rows)
          /\ \A i \in 1..Len(completion.table.rows) :
                /\ Len(result.tableData.rows[i]) = Len(completion.table.headers)
                /\ \A c \in 1..Len(completion.table.headers) :
                      result.tableData.rows[i][c] =
                          NormalizedCell(completion.table.rows[i], input.rows, i, c)
    /\ (SearchReconciled /\ Len(completion.table.rows) # Len(input.rows)) =>
          \A i \in 1..Len(input.rows) :
              Unmatched(input.rows[i]) =>
                  /\ Len(result.tableData.rows[i]) = Len(input.headers)
                  /\ \A c \in 1..Len(input.headers) :
                        result.tableData.rows[i][c] =
                            NormalizedCell(input.rows[i], input.rows, i, c)

\* The example of the claim: an original row [k1, o12, o13], a candidate row
\* [k1, n12] under 3 headers, and the output row [k1, n12, o13].
C11_Witness ==
    /\ HasReturned("modify")
    /\ CandidateParsed
    /\ Len(completion.table.headers) = 3
    /\ Len(input.rows) >= 1
    /\ Len(completion.table.rows) >= 1
    /\ input.rows[1] = <<KeyText(1), OriginalText(1, 2), OriginalText(1, 3)>>
    /\ completion.table.rows[1] = <<KeyText(1), NewText(1, 2)>>
    /\ result.tableData.rows[1] = <<KeyText(1), NewText(1, 2), OriginalText(1, 3)>>

(***************************************************************************)
(* C12.  Realignment by key does not depend on the candidate's order: in   *)
(* searchAndFill, when the candidate has another number of rows than the   *)
(* original, the returned table is the same for every permutation of the   *)
(* candidate's rows, and every original row whose key occurs in the        *)
(* candidate gets the last cell of the candidate row with that key.        *)
(***************************************************************************)
\* The permutations of 1..n, and the rows in the order f.
Perms(n) == {f \in [1..n -> 1..n] : \A a, b \in 1..n : f[a] = f[b] => a = b}
Permuted(rows, f) == [i \in 1..Len(rows) |-> rows[f[i]]]

\* searchAndFill took the row-count mismatch path.
CandidateMismatched ==
    /\ SearchReconciled
    /\ Len(completion.table.rows) # Len(input.rows)

\* The answer with the candidate's rows in the order f.
Reordered(f) ==
    [completion EXCEPT !.table.rows = Permuted(completion.table.rows, f)]

\* No two rows of the candidate have the same first cell.
CandidateKeysDistinct ==
    \A a, b \in 1..Len(completion.table.rows) :
        At(completion.table.rows[a], 0) = At(completion.table.rows[b], 0) => a = b

\* As claimed, for every candidate: find() takes the first row with the key,
\* so two candidate rows with one key give an answer that depends on their
\* order; and a matched row narrower than the headers gives nothing.
C12_OrderIndependentAllCandidates ==
    CandidateMismatched =>
        /\ \A f \in Perms(Len(completion.table.rows)) :
              searchAndFill(input, Reordered(f)) = result
        /\ \A i \in 1..Len(input.rows) : \A j \in 1..Len(completion.table.rows) :
              At(completion.table.rows[j], 0) = At(input.rows[i], 0) =>
                  At(result.tableData.rows[i], Len(input.headers) - 1) =
                      At(completion.table.rows[j], Len(completion.table.rows[j]) - 1)

\* As amended: for a candidate whose keys are pairwise distinct the answer
\* is the same in every order, and an original row of len(headers) >= 1
\* cells gets the last cell of the candidate row with its key when that row
\* has at least len(headers) cells.
C12_OrderIndependent ==
    (CandidateMismatched /\ CandidateKeysDistinct) =>
        /\ \A f \in Perms(Len(completion.table.rows)) :
              searchAndFill(input, Reordered(f)) = result
        /\ \A i \in 1..Len(input.rows) : \A j \in 1..Len(completion.table.rows) :
              ( /\ At(completion.table.rows[j], 0) = At(input.rows[i], 0)
                /\ Len(input.headers) >= 1
                /\ Len(input.rows[i]) = Len(input.headers)
                /\ Len(completion.table.rows[j]) >= Len(input.headers) ) =>
                  At(result.tableData.rows[i], Len(input.headers) - 1) =
                      At(completion.table.rows[j], Len(completion.table.rows[j]) - 1)

\* One original row with the key k1 and a candidate of two rows that holds
\* k1 in its second row: the output's last cell is that second row's.
C12_Witness ==
    /\ CandidateMismatched
    /\ CandidateKeysDistinct
    /\ Len(input.headers) >= 2
    /\ Len(input.rows) = 1
    /\ Len(input.rows[1]) = Len(input.headers)
    /\ Len(completion.table.rows) = 2
    /\ At(completion.table.rows[1], 0) # At(input.rows[1], 0)
    /\ At(completion.table.rows[2], 0) = At(input.rows[1], 0)
    /\ Len(completion.table.rows[2]) = Len(input.headers)
    /\ At(completion.table.rows[2], Len(input.headers) - 1) = NewText(2, Len(input.headers))
    /\ At(result.tableData.rows[1], Len(input.headers) - 1) = NewText(2, Len(input.headers))
    /\ At(result.tableData.rows[1], 0) = At(input.rows[1], 0)

(***************************************************************************)
(* C13.  Only the content column may change in searchAndFill: in every     *)
(* returned table, every row i and every column c but the last, the cell   *)
(* of the output is the cell of the original, whatever the candidate       *)
(* holds.                                                                  *)
(***************************************************************************)
\* As claimed, for every cell: on the aligned path a middle column whose
\* original cell is empty takes the candidate's cell.
C13_OnlyLastColumnChangesAllCells ==
    HasReturned("search") =>
        /\ Len(result.tableData.rows) = Len(input.rows)
        /\ \A i \in 1..Len(input.rows) : \A c \in 0..(Len(input.headers) - 2) :
              At(result.tableData.rows[i], c) = At(input.rows[i], c)

\* As amended: the cells of the original that are not empty are kept, in
\* every column but the last, in every row that has a cell per header.
C13_OnlyLastColumnChanges ==
    HasReturned("search") =>
        /\ Len(result.tableData.rows) = Len(input.rows)
        /\ \A i \in 1..Len(input.rows) : \A c \in 0..(Len(input.headers) - 2) :
              (Len(input.rows[i]) >= Len(input.headers) /\ Truthy(At(input.rows[i], c))) =>
                  At(result.tableData.rows[i], c) = At(input.rows[i], c)

\* An aligned candidate that rewrote a middle cell and the last cell of a
\* row of three cells: the output kept the middle cell and took the last.
C13_Witness ==
    /\ CandidateAligned
    /\ Len(input.headers) = 3
    /\ Len(input.rows) >= 1
    /\ Len(input.rows[1]) = 3
    /\ Len(completion.table.rows[1]) = 3
    /\ input.rows[1][2] = OriginalText(1, 2)
    /\ completion.table.rows[1][2] = NewText(1, 2)
    /\ completion.table.rows[1][3] = NewText(1, 3)
    /\ result.tableData.rows[1][2] = OriginalText(1, 2)
    /\ result.tableData.rows[1][3] = NewText(1, 3)

(***************************************************************************)
(* C14.  Extraction round trip: for every JSON text j, parseJsonResponse   *)
(* of j inside a fenced block (tagged json or not, with prose around it)   *)
(* gives what parseJsonResponse of j alone gives; with several fenced      *)
(* blocks only the content of the first is parsed.                         *)
(***************************************************************************)
\* parseJsonResponse has been applied to the answer.
Extracted == content # NoText /\ extracted # NotExtracted

\* The text holds no fence.
Fenceless(text) == \A i \in 1..Len(text) : text[i] # Fence

\* As claimed, for every JSON text: a JSON string that holds three
\* backticks ends the block early, and the text parsed is not JSON.
C14_RoundTripAllTexts ==
    Extracted => extracted = parseJsonResponse(jsonText)

\* As amended: for every JSON text without three backticks in a row, the
\* value is the value of the text, fenced or alone.
C14_RoundTrip ==
    (Extracted /\ Fenceless(jsonText)) =>
        /\ extracted = parseJsonResponse(jsonText)
        /\ extracted = [ok |-> TRUE, value |-> jsonText]

\* An answer of prose, a block tagged json and a second block: the value is
\* that of the first block.
C14_Witness ==
    /\ Extracted
    /\ jsonText = <<"[1]">>
    /\ content = <<Prose, Space, Fence, Tag, Space, "[1]", Space, Fence,
                   Prose, Fence, Tag, Space, "[2]", Space, Fence, Prose>>
    /\ extracted = [ok |-> TRUE, value |-> <<"[1]">>]

(***************************************************************************)
(* C15.  A missing credential fails before any network call: when no       *)
(* credential is configured, invokeLLM, and with it each of the three      *)
(* operations, fails at its first step with the configuration error, and   *)
(* no HTTP request is sent in that invocation.                             *)
(***************************************************************************)
C15_MissingKeyFailsFirst ==
    [][ ~apiKey =>
          /\ httpRequests' = 0
          /\ pc = "invoke" =>
                /\ pc' = "done"
                /\ gateway' = "noKey"
                /\ result' = Raised(ErrApiKey) ]_vars

\* A call ended without a credential: it raised, and sent no request.
C15_Witness ==
    /\ ~apiKey
    /\ pc = "done"
    /\ op = "search"
    /\ llmCalls = 1
    /\ gateway = "noKey"
    /\ result = Raised(ErrApiKey)
    /\ httpRequests = 0

(***************************************************************************)
(* C16.  One attempt, no retry: a call of recognizeFromImage,              *)
(* searchAndFill or modifyTable invokes the gateway at most once, and an   *)
(* invocation of the gateway sends at most one HTTP request, on every      *)
(* path, the failing ones included.                                        *)
(***************************************************************************)
C16_SingleAttempt ==
    /\ llmCalls <= 1
    /\ httpRequests <= llmCalls
    /\ pc = "done" => llmCalls = 1
    /\ (pc = "done" /\ gateway \in {"networkError", "httpError", "ok"}) => httpRequests = 1

\* A call that ended on a non-success status after one request.
C16_Witness ==
    /\ pc = "done"
    /\ op = "modify"
    /\ gateway = "httpError"
    /\ result = Raised(ErrInvoke)
    /\ llmCalls = 1
    /\ httpRequests = 1

(***************************************************************************)
(* C17.  Not found in the document store: updateDocument with an id that   *)
(* is not in the collection returns null, deleteDocument with such an id   *)
(* returns false, and neither writes the list in memory or the item        *)
(* stored, nor hands a list to saveDocuments.                              *)
(***************************************************************************)
\* No document of the list has the id.
NotIn(id, docs) == \A i \in 1..Len(docs) : docs[i].id # id

\* This step is the call of the hook's function call on the document id.
Invokes(call, id) == invoked' = [call |-> call, id |-> id, n |-> invoked.n + 1]

C17_NotFoundWritesNothing ==
    [][ \A id \in DocIds :
          /\ (Invokes("update", id) /\ NotIn(id, documents)) =>
                /\ reply' = Reply("update", id, "null", NoDoc)
                /\ UNCHANGED <<documents, storage, pending>>
          /\ (Invokes("delete", id) /\ NotIn(id, documents)) =>
                /\ reply' = Reply("delete", id, "false", NoDoc)
                /\ UNCHANGED <<documents, storage, pending>> ]_vars

\* updateDocument has returned null for an id that a list of one document
\* does not hold; nothing is being saved.
C17_Witness ==
    /\ invoked.call = "update"
    /\ reply = Reply("update", invoked.id, "null", NoDoc)
    /\ documents = <<StoredDoc>>
    /\ storage = Item(<<StoredDoc>>)
    /\ NotIn(invoked.id, documents)
    /\ pending = <<>>

(***************************************************************************)
(* C18.  updateDocument on an id of the collection sets updatedAt to the   *)
(* time of the call and the title, description and tableData that were     *)
(* given; the id and createdAt of the document, its place in the list and  *)
(* every other document are as they were in the list the call was made     *)
(* on.  This holds of the list written to the storage, of the list set as  *)
(* the state, and of the document returned.                                *)
(***************************************************************************)
Given(updates, key, old) == IF updates[key] = Absent THEN old ELSE updates[key]

\* The list after is the list before but for the update of the document id.
UpdateFrame(before, after, id, updates, at) ==
    /\ Len(after) = Len(before)
    /\ \A i \in 1..Len(before) :
          IF before[i].id # id
          THEN after[i] = before[i]
          ELSE /\ after[i].id = id
               /\ after[i].createdAt = before[i].createdAt
               /\ after[i].updatedAt = at
               /\ after[i].title = Given(updates, "title", before[i].title)
               /\ after[i].description = Given(updates, "description", before[i].description)
               /\ after[i].tableData = Given(updates, "tableData", before[i].tableData)

C18_UpdateFrame ==
    [][ \A k \in 1..Len(pending) :
          LET save == pending[k]
          IN  save.call = "update" =>
                /\ (save.pc = "setItem" /\ pending' = [pending EXCEPT ![k].pc = "setDocuments"]) =>
                      UpdateFrame(save.seen, storage'.docs, save.id, save.updates, save.at)
                /\ (save.pc = "setDocuments" /\ pending' = Without(pending, k)) =>
                      /\ UpdateFrame(save.seen, documents', save.id, save.updates, save.at)
                      /\ reply'.returned = "doc"
                      /\ \E i \in 1..Len(documents') : documents'[i] = reply'.doc ]_vars

\* An update of the title of the second of two documents has returned: the
\* document is still the second, with its table, and a later updatedAt.
C18_Witness ==
    /\ reply.call = "update"
    /\ reply.returned = "doc"
    /\ Len(documents) = 2
    /\ documents[1].id # reply.id
    /\ documents[1].updatedAt = documents[1].createdAt
    /\ documents[2] = reply.doc
    /\ storage = Item(documents)
    /\ reply.doc.id = StoredDoc.id
    /\ reply.doc.title = "t2"
    /\ reply.doc.tableData = StoredDoc.tableData
    /\ reply.doc.createdAt = StoredDoc.createdAt
    /\ reply.doc.updatedAt > StoredDoc.updatedAt

(***************************************************************************)
(* C19.  AI operations never write persisted documents: a search or modify *)
(* command changes the editor's table and sets hasChanges, and nothing     *)
(* else; the stored document changes only by a save that handleSave        *)
(* started, and it gets the table the editor held at that call of          *)
(* handleSave; this for every sequence of AI commands, edits and saves.    *)
(***************************************************************************)
\* This step belongs to an AI command: it is sent, it resolves or rejects.
AIStep == aiMutation' # aiMutation

\* This step is a call of handleSave that hands a list to saveDocuments.
StartsSave ==
    /\ invoked' = [call |-> "update", id |-> edDocument.id, n |-> invoked.n + 1]
    /\ aiMutation' = aiMutation
    /\ pending' = Append(pending, pending'[Len(pending')])
    /\ pending'[Len(pending')].caller = "handleSave"
    /\ pending'[Len(pending')].updates.tableData = edTableData

C19_AINeverWritesStore ==
    [][ /\ AIStep =>
              /\ UNCHANGED <<storage, documents, pending, reply, invoked, edDocument>>
              /\ aiMutation'.status = "success" =>
                    (edTableData' = aiMutation'.data /\ hasChanges')
              /\ aiMutation'.status # "success" => UNCHANGED <<edTableData, hasChanges>>
        /\ Len(pending') > Len(pending) => StartsSave
        /\ storage' # storage =>
              \E k \in 1..Len(pending) :
                  /\ pending[k].caller = "handleSave"
                  /\ storage' = Item(pending[k].docs)
                  /\ UpdateFrame(pending[k].seen, storage'.docs, pending[k].id,
                                 pending[k].updates, pending[k].at) ]_vars

\* A search has resolved with another table than the stored one: the editor
\* holds it, unsaved, and the stored document is as it was.
C19_Witness ==
    /\ aiMutation.type = "search"
    /\ aiMutation.status = "success"
    /\ aiMutation.data # StoredDoc.tableData
    /\ edTableData = aiMutation.data
    /\ hasChanges
    /\ ~aiLoading
    /\ storage = Item(<<StoredDoc>>)
    /\ documents = <<StoredDoc>>
    /\ pending = <<>>

(***************************************************************************)
(* C20.  searchAndFill and modifyTable leave the table they were given as  *)
(* it was, and whatever the order of the steps of the calls in progress,   *)
(* what a call returns is what the operation yields for the table of that  *)
(* call and the answer the backend gave to that call.                      *)
(***************************************************************************)
\* What call c returns when it is the only call.
Alone(c) ==
    IF c.completion = NoCompletion THEN Raised(ErrInvoke)
    ELSE Handle(c.op, c.sent, c.completion)

KeyMatches(originalRow) ==
    {j \in 1..Len(completion.table.rows) :
        At(completion.table.rows[j], 0) = At(originalRow, 0)}
FirstKeyMatch(originalRow) ==
    CHOOSE j \in KeyMatches(originalRow) : \A k \in KeyMatches(originalRow) : j <= k

\* The candidate row j has a cell per header at least.
WideEnough(j) == Len(completion.table.rows[j]) >= Len(input.headers)

\* The row but for its last cell, which is v.
WithLast(row, v) == [c \in 1..Len(row) |-> IF c = Len(row) THEN v ELSE row[c]]
LastOf(row) == At(row, Len(row) - 1)

\* As claimed, for every original row: column normalization runs after the
\* policy, so an original row that has not len(headers) cells comes out
\* filled or cut; and find() yields the first row with the key only, so a
\* narrow row before a wide one with the same key leaves the row as it was.
C21_MismatchPolicyAllRows ==
    CandidateMismatched =>
        /\ Len(result.tableData.rows) = Len(input.rows)
        /\ \A i \in 1..Len(input.rows) :
              LET originalRow == input.rows[i]
                  wide == {j \in KeyMatches(originalRow) : WideEnough(j)}
              IN  IF wide # {}
                  THEN \E j \in wide :
                          result.tableData.rows[i] =
                              WithLast(originalRow, LastOf(completion.table.rows[j]))
                  ELSE result.tableData.rows[i] = originalRow

\* As amended: for the original rows of len(headers) cells, with the first
\* candidate row that has the key as the match.
C21_MismatchPolicy ==
    CandidateMismatched =>
        /\ Len(result.tableData.rows) = Len(input.rows)
        /\ \A i \in 1..Len(input.rows) :
              LET originalRow == input.rows[i]
              IN  Len(originalRow) = Len(input.headers) =>
                      IF KeyMatches(originalRow) # {} /\ WideEnough(FirstKeyMatch(originalRow))
                      THEN result.tableData.rows[i] =
                              WithLast(originalRow,
                                       LastOf(completion.table.rows[FirstKeyMatch(originalRow)]))
                      ELSE result.tableData.rows[i] = originalRow

\* Two original rows of three cells and a candidate of one row: the
\* first original row took the last cell of its match, the second, whose key
\* the candidate does not hold, came out as it was.
C21_Witness ==
    /\ CandidateMismatched
    /\ Len(input.headers) = 3
    /\ Len(input.rows) = 2
    /\ Rectangular(input)
    /\ Len(completion.table.rows) = 1
    /\ KeyMatches(input.rows[1]) = {1}
    /\ WideEnough(1)
    /\ KeyMatches(input.rows[2]) = {}
    /\ Truthy(input.rows[1][3])
    /\ result.tableData.rows[1] =
          <<input.rows[1][1], input.rows[1][2], LastOf(completion.table.rows[1])>>
    /\ result.tableData.rows[1] # input.rows[1]
    /\ result.tableData.rows[2] = input.rows[2]

(***************************************************************************)
(* C22.  The cell policy of the aligned path of searchAndFill: when the    *)
(* candidate has as many rows as the original, a cell in a column strictly *)
(* between the first and the last is the original's unless that is empty,  *)
(* then it is the candidate's; a cell in the last column is the            *)
(* candidate's unless that is empty or missing, then it is the original's; *)
(* and the cell is the empty string when both are empty.                   *)
(***************************************************************************)
\* The cell a when it holds text, else the cell b when it holds text, else
\* the empty string.
Preferring(a, b) ==
    IF a # Undefined /\ a # "" THEN a
    ELSE IF b # Undefined /\ b # "" THEN b
    ELSE ""

\* As claimed, the last column being the first one too in a table of one
\* column: there the code keeps the original's key.
C22_AlignedCellPolicyAllWidths ==
    CandidateAligned =>
        \A i \in 1..Len(input.rows) :
            LET originalRow == input.rows[i]
                newRow == completion.table.rows[i]
                last == Len(input.headers) - 1
            IN  /\ \A col \in 1..(last - 1) :
                      At(result.tableData.rows[i], col) =
                          Preferring(At(originalRow, col), At(newRow, col))
                /\ last >= 0 =>
                      At(result.tableData.rows[i], last) =
                          Preferring(At(newRow, last), At(originalRow, last))

\* As amended: the last column is under the policy when it is not the first.
C22_AlignedCellPolicy ==
    CandidateAligned =>
        \A i \in 1..Len(input.rows) :
            LET originalRow == input.rows[i]
                newRow == completion.table.rows[i]
                last == Len(input.headers) - 1
            IN  /\ Len(result.tableData.rows[i]) = Len(input.headers)
                /\ \A col \in 1..(last - 1) :
                      At(result.tableData.rows[i], col) =
                          Preferring(At(originalRow, col), At(newRow, col))
                /\ last >= 1 =>
                      At(result.tableData.rows[i], last) =
                          Preferring(At(newRow, last), At(originalRow, last))

\* A row [k1, "", o13] and the candidate row [k1, n12] under three
\* headers: the middle cell is the candidate's, the last the original's.
C22_Witness ==
    /\ CandidateAligned
    /\ Len(input.headers) = 3
    /\ Len(input.rows) >= 1
    /\ Len(input.rows[1]) = 3
    /\ input.rows[1][2] = ""
    /\ Truthy(input.rows[1][3])
    /\ Len(completion.table.rows[1]) = 2
    /\ Truthy(completion.table.rows[1][2])
    /\ result.tableData.rows[1] =
          <<input.rows[1][1], completion.table.rows[1][2], input.rows[1][3]>>

(***************************************************************************)
(* C23.  No lost updates in the document store: whatever the order of the  *)
(* steps of createDocument, updateDocument and deleteDocument, the list in *)
(* storage reflects every call.  Stated on the writes, the only steps that *)
(* change the list in storage: a write keeps every document that was in    *)
(* storage but the one its call deletes, with its content but for the      *)
(* fields its call updates.  The code does not keep it: every call writes  *)
(* the whole list as its render saw it.                                    *)
(***************************************************************************)
\* The documents of a list.
DocsOf(docs) == {docs[i] : i \in 1..Len(docs)}

\* The step is the write of the k-th call in flight.
WritesItem(k) ==
    /\ k \in 1..Len(pending)
    /\ pending[k].pc = "setItem"
    /\ storage' = Item(pending[k].docs)
    /\ pending' = [pending EXCEPT ![k].pc = "setDocuments"]

\* The document d of storage as the call s must leave it: d itself when the
\* call is about another document, d with the fields of the updates when
\* the call updates d.
Retained(d, s) ==
    IF d.id # s.id THEN d \in DocsOf(s.docs)
    ELSE IF s.call = "update"
         THEN \E e \in DocsOf(s.docs) :
                 /\ e.id = d.id
                 /\ s.updates.title = Absent => e.title = d.title
                 /\ s.updates.description = Absent => e.description = d.description
                 /\ s.updates.tableData = Absent => e.tableData = d.tableData
         ELSE TRUE

C23_NoLostUpdates ==
    [][\A k \in 1..Len(pending) :
          WritesItem(k) => \A d \in DocsOf(storage.docs) : Retained(d, pending[k])]_vars

(***************************************************************************)
(* C24.  A createDocument called before the first load from storage has    *)
(* ended drops no document that was in storage: the write of a call made   *)
(* while loading is true leaves in storage the new document and every      *)
(* document that was there.  The code does not keep it: documents is []    *)
(* until the load ends, and the call writes the list [newDoc].             *)
(***************************************************************************)
C24_CreateBeforeLoadKeepsStored ==
    [][\A k \in 1..Len(pending) :
          (loading /\ WritesItem(k) /\ pending[k].call = "create") =>
              /\ pending[k].value.doc \in DocsOf(storage'.docs)
              /\ \A d \in DocsOf(storage.docs) : d \in DocsOf(storage'.docs)]_vars

(***************************************************************************)
(* C25.  No change of the editor is dropped by a save: when handleSave     *)
(* ends while the editor's table is no longer the table it saved, the      *)
(* editor keeps its table and hasChanges stays true; and whenever          *)
(* hasChanges is false the editor's table is the table of the document in  *)
(* storage.  The code does not keep it: handleSave ends with               *)
(* setHasChanges(false) whatever happened since it began, and the list set *)
(* by the save makes the load effect put the saved table back.             *)
(***************************************************************************)
\* The step ends the k-th call in flight, a save of handleSave.
SaveEnds(k) ==
    /\ k \in 1..Len(pending)
    /\ pending[k].caller = "handleSave"
    /\ pending' = Without(pending, k)

\* The table of the editor's document in storage (Null when storage does
\* not hold the document).
PersistedTable ==
    IF storage.exists /\ findIndex(storage.docs, edDocument.id) # 0
    THEN storage.docs[findIndex(storage.docs, edDocument.id)].tableData
    ELSE Null

C25_SaveDropsNoChange ==
    [][/\ \A k \in 1..Len(pending) :
             (SaveEnds(k) /\ edTableData # pending[k].updates.tableData) =>
                 /\ edTableData' = edTableData
                 /\ hasChanges'
       /\ (EditorShown /\ ~hasChanges)' => (edTableData = PersistedTable)']_vars

(***************************************************************************)
(* C26.  TableEditor keeps the table rectangular and not empty: opened on  *)
(* a table with a cell per header in every row, a row and a column at      *)
(* least, after any sequence of its handlers every row has a cell per      *)
(* header and there is a row and a column at least.  The code does not     *)
(* keep it: the commit of a header writes at the index the press recorded, *)
(* which a deleteColumn in between may have put past the end.              *)
(***************************************************************************)
C26_TableStaysRectangular ==
    tableData.defined =>
        /\ Rectangular(tableData)
        /\ Len(tableData.rows) >= 1
        /\ Len(tableData.headers) >= 1

(***************************************************************************)
(* C27.  The AI-loading state of the editor always ends: after every AI    *)
(* command aiLoading becomes false again, whether the mutation resolves or *)
(* rejects; while aiLoading is true no AI command is sent and no cell      *)
(* edit, row add or row delete starts; and a mutation that rejects leaves  *)
(* the editor's table and hasChanges as they were.                         *)
(***************************************************************************)
\* The step sends an AI command.
SendsCommand == aiMutation'.status = "pending" /\ aiMutation' # aiMutation

\* The step starts an edit of the table: a cell is pressed, or a row is
\* added or deleted (the table is handed over with no cell under edit).
StartsEdit ==
    \/ editingCell = NoCell /\ editingCell' # NoCell
    \/ /\ editingCell = NoCell
       /\ edTableData' # edTableData
       /\ pending' = pending
       /\ aiMutation' = aiMutation

\* The step is the end of a mutation that rejected.
MutationRejects == aiMutation.status = "pending" /\ aiMutation'.status = "error"

C27_AILoadingEnds ==
    /\ aiLoading ~> ~aiLoading
    /\ [][/\ aiLoading => ~SendsCommand /\ ~StartsEdit
          /\ aiMutation.status = "pending" <=> aiLoading
          /\ MutationRejects =>
                /\ ~aiLoading'
                /\ edTableData' = edTableData
                /\ hasChanges' = hasChanges]_vars

\* An AI command was sent on an edited table and rejected: aiLoading is
\* false again and the edited table is still there, with hasChanges true.
C27_Witness ==
    /\ aiMutation.status = "error"
    /\ ~aiLoading
    /\ hasChanges
    /\ edTableData = aiMutation.input
    /\ edTableData # StoredDoc.tableData

(***************************************************************************)
(* C28.  A model that echoes the table changes nothing: when the candidate *)
(* is the original (the same headers and rows, every row with a cell per   *)
(* header) searchAndFill and modifyTable return the original; and          *)
(* searchAndFill run on the original with its own output as the candidate  *)
(* returns that output again.  The code keeps the first half; it does not  *)
(* keep the second for an output of the row-count mismatch path whose last *)
(* cell was emptied, or whose key was overwritten in a table of one        *)
(* column.                                                                 *)
(***************************************************************************)
\* The candidate is the original, and the original is rectangular.
CandidateEchoes ==
    /\ CandidateParsed
    /\ Rectangular(input)
    /\ completion.table.headers = input.headers
    /\ completion.table.rows = input.rows

\* The answer of a model that returns the output of the call as its table.
OutputAsCandidate == [completion EXCEPT !.table = result.tableData]

C28_EchoReturnsOriginal ==
    \A o \in {"search", "modify"} :
        (HasReturned(o) /\ CandidateEchoes) => result.tableData = input

C28_EchoIsNoOp ==
    /\ C28_EchoReturnsOriginal
    /\ (SearchReconciled /\ Rectangular(input)) =>
          searchAndFill(input, OutputAsCandidate).tableData = result.tableData

(***************************************************************************)
(* C29.  searchAndFill never blanks content: in every returned table,      *)
(* every cell of the original that holds text holds text in the output, on *)
(* the aligned path and on the row-count mismatch path.  Stated here for   *)
(* the input tables whose rows have as many cells as there are headers;    *)
(* the code breaks it on the row-count mismatch path, which takes the last *)
(* cell of the matched row also when it is empty.                          *)
(***************************************************************************)
C29_NeverBlanksContent ==
    (HasReturned("search") /\ Rectangular(input)) =>
        /\ Len(result.tableData.rows) = Len(input.rows)
        /\ \A i \in 1..Len(input.rows) : \A c \in 0..(Len(input.rows[i]) - 1) :
              Truthy(At(input.rows[i], c)) => Truthy(At(result.tableData.rows[i], c))

(***************************************************************************)
(* C30.  Every value that recognizeFromImage returns holds a table that    *)
(* can be edited: a tableData with a sequence of headers and a sequence of *)
(* rows, also when the completion is a JSON object without tableData or    *)
(* with a tableData that lacks headers or rows.  The code does not keep    *)
(* it: the fallback table is returned only when the extraction throws.     *)
(***************************************************************************)
C30_RecognizeReturnsTable ==
    HasReturned("recognize") =>
        /\ result.tableData.defined
        /\ result.tableData.hasHeaders
        /\ result.tableData.hasRows

====
